---- MODULE Spec2Model ----
(***************************************************************************)
(* A model of realtime-market-streamer:                                    *)
(*   backend/store.py          MarketStore (lock, bounded deques, book)    *)
(*   backend/stream_worker.py  BinanceStreamClient and start_worker        *)
(* Floats are modelled by integers and by fractions <<num, den>>.  An      *)
(* Optional value is None (<<>>) or Some(x) (<<x>>).                       *)
(***************************************************************************)
EXTENDS Integers, Sequences, FiniteSets, TLC

\* ---------------------------------------------------------------- bounds
MaxCap == 2
MaxCalls == 3

\* The threads that call the store's public methods.
Threads == {1, 2}

\* The capacities MarketStore is called with: deque(maxlen=0) is legal
\* Python, a negative maxlen is not.
Capacities == (-1)..MaxCap

\* ------------------------------------------------------------- primitives
None == <<>>
Some(x) == <<x>>

Min(a, b) == IF a <= b THEN a ELSE b

\* reversed(...) left out: the sequence as it is.
ReverseNot(s) == s

\* The last n elements of sequence s (all of s when it is shorter).
LastN(s, n) == IF Len(s) <= n THEN s ELSE SubSeq(s, Len(s) - n + 1, Len(s))

Reverse(s) == [i \in 1..Len(s) |-> s[Len(s) + 1 - i]]

\* ------------------------------------------------------------ MarketStore
\* deque(maxlen=m).append(x): drops the oldest element when full; with m = 0
\* the deque stays empty.
DequeAppendEvictsTwo(d, x, maxlen) ==
  IF maxlen = 0 THEN <<>>
  ELSE IF Len(d) >= maxlen THEN Tail(Tail(Append(d, x)))
  ELSE Append(d, x)

DequeAppendNoEvict(d, x, maxlen) == Append(d, x)

DequeAppend(d, x, maxlen) ==
  IF maxlen = 0 THEN <<>>
  ELSE IF Len(d) >= maxlen THEN Tail(Append(d, x))
  ELSE Append(d, x)

\* MarketStore.__init__.  best_call/top_call are history fields: the id of the
\* update_book_metrics call that last wrote the best prices / the top levels
\* (0: none).
NewStore(max_metrics, max_trades) ==
  [ max_metrics   |-> max_metrics,
    max_trades    |-> max_trades,
    mid_prices    |-> <<>>,
    spreads       |-> <<>>,
    imbalances    |-> <<>>,
    timestamps    |-> <<>>,
    recent_trades |-> <<>>,
    best_bid      |-> None,
    best_ask      |-> None,
    bid_volume    |-> None,
    ask_volume    |-> None,
    top_bids      |-> <<>>,
    top_asks      |-> <<>>,
    best_call     |-> 0,
    top_bids_call |-> 0,
    top_asks_call |-> 0 ]

\* store.py lines 70-73
SetBest(s, a) ==
  [s EXCEPT !.best_bid = Some(a.best_bid),
            !.best_ask = Some(a.best_ask),
            !.bid_volume = Some(a.bid_volume),
            !.ask_volume = Some(a.ask_volume),
            !.best_call = a.call]

\* store.py lines 75-78
SetTop(s, a) ==
  [s EXCEPT !.top_bids = IF a.top_bids # None THEN a.top_bids[1] ELSE @,
            !.top_bids_call = IF a.top_bids # None THEN a.call ELSE @,
            !.top_asks = IF a.top_asks # None THEN a.top_asks[1] ELSE @,
            !.top_asks_call = IF a.top_asks # None THEN a.call ELSE @]

\* A point of a series: the value and (history) the call that appended it.
Point(v, a) == [v |-> v, call |-> a.call]

\* store.py line 80
AppendMid(s, a) ==
  [s EXCEPT !.mid_prices = DequeAppend(@, Point(a.mid_price, a), s.max_metrics)]
\* store.py line 81
AppendSpread(s, a) ==
  [s EXCEPT !.spreads = DequeAppend(@, Point(a.spread, a), s.max_metrics)]
\* store.py line 82
AppendImbalance(s, a) ==
  [s EXCEPT !.imbalances = DequeAppend(@, Point(a.imbalance, a), s.max_metrics)]
\* store.py line 83
AppendTimestamp(s, a) ==
  [s EXCEPT !.timestamps = DequeAppend(@, Point(a.timestamp, a), s.max_metrics)]

\* The whole critical section of update_book_metrics.
UpdateBookMetrics(s, a) ==
  AppendTimestamp(AppendImbalance(AppendSpread(AppendMid(
    SetTop(SetBest(s, a), a), a), a), a), a)

\* store.py line 93
\* add_trade that also forgets the best bid
AddTradeResetsBook(s, trade) ==
  [s EXCEPT !.recent_trades = DequeAppend(@, trade, s.max_trades),
            !.best_bid = None]

AddTrade(s, trade) ==
  [s EXCEPT !.recent_trades = DequeAppend(@, trade, s.max_trades)]

\* self.x[0] in place of self.x[-1]
LastOrNoneFirst(d) == IF Len(d) > 0 THEN Some(d[1].v) ELSE None

\* store.py lines 109-111, 128: self.x[-1] if self.x else None
LastOrNone(d) == IF Len(d) > 0 THEN Some(d[Len(d)].v) ELSE None

\* store.py lines 103-129
Snapshot(s) ==
  [ best_bid          |-> s.best_bid,
    best_ask          |-> s.best_ask,
    bid_volume        |-> s.bid_volume,
    ask_volume        |-> s.ask_volume,
    current_mid       |-> LastOrNone(s.mid_prices),
    current_spread    |-> LastOrNone(s.spreads),
    current_imbalance |-> LastOrNone(s.imbalances),
    mid_prices        |-> s.mid_prices,
    spreads           |-> s.spreads,
    imbalances        |-> s.imbalances,
    timestamps        |-> s.timestamps,
    top_bids          |-> s.top_bids,
    top_asks          |-> s.top_asks,
    recent_trades     |-> Reverse(s.recent_trades),
    data_points       |-> Len(s.mid_prices),
    last_update       |-> LastOrNone(s.timestamps),
    best_call         |-> s.best_call,
    top_bids_call     |-> s.top_bids_call,
    top_asks_call     |-> s.top_asks_call ]

\* lines 134-137 without line 138: the trades are kept
ClearSeriesKeepsTrades(s) ==
  [s EXCEPT !.mid_prices = <<>>, !.spreads = <<>>, !.imbalances = <<>>,
            !.timestamps = <<>>]

\* store.py lines 134-138
ClearSeries(s) ==
  [s EXCEPT !.mid_prices = <<>>, !.spreads = <<>>, !.imbalances = <<>>,
            !.timestamps = <<>>, !.recent_trades = <<>>]

\* lines 141-144 without lines 139-140: the best prices are kept
ClearBookKeepsBest(s) ==
  [s EXCEPT !.bid_volume = None, !.ask_volume = None,
            !.top_bids = <<>>, !.top_asks = <<>>,
            !.top_bids_call = 0, !.top_asks_call = 0]

\* store.py lines 139-144
ClearBook(s) ==
  [s EXCEPT !.best_bid = None, !.best_ask = None,
            !.bid_volume = None, !.ask_volume = None,
            !.top_bids = <<>>, !.top_asks = <<>>,
            !.best_call = 0, !.top_bids_call = 0, !.top_asks_call = 0]

Clear(s) == ClearBook(ClearSeries(s))

\* threading.Lock: acquire blocks while the lock is held (0: free).
CanAcquireNoLock(l) == TRUE

CanAcquire(l) == l = 0


\* ------------------------------------------------- stream_worker: parsing
TOP_N == 5

\* A decoded JSON value, tagged by its Python type.
JNull == [ty |-> "null"]
JBool(b) == [ty |-> "bool", b |-> b]
JNum(n) == [ty |-> "num", n |-> n]
JStr(s) == [ty |-> "str", s |-> s]
JArr(items) == [ty |-> "arr", items |-> items]
JObj(f) == [ty |-> "obj", f |-> f]

\* The outcome of a Python expression: its value, or the exception it raises.
Ok(v) == [exc |-> "", v |-> v]
Raise(e) == [exc |-> e, v |-> <<>>]

\* float(str) on the numeric strings of the inputs; float() raises ValueError
\* on any other string.
FloatOf ==
  ("0" :> 0) @@ ("1" :> 1) @@ ("2" :> 2) @@ ("3" :> 3) @@ ("2.0" :> 2) @@
  ("1.00" :> 1) @@ ("-1" :> -1)

\* float(x) (stream_worker.py lines 142, 196): a number or bool converts, a
\* numeric string parses, None/list/dict raise TypeError.
Float(j) ==
  CASE j.ty = "str" ->
         IF j.s \in DOMAIN FloatOf THEN Ok(FloatOf[j.s]) ELSE Raise("ValueError")
    [] j.ty = "num" -> Ok(j.n)
    [] j.ty = "bool" -> Ok(IF j.b THEN 1 ELSE 0)
    [] OTHER -> Raise("TypeError")

\* One step of "(float(p), float(q)) for p, q in ...": unpacking a level that
\* is not a 2-element list fails (ValueError; TypeError when not iterable).
ParseLevel(lv) ==
  IF lv.ty # "arr" THEN Raise("TypeError")
  ELSE IF Len(lv.items) # 2 THEN Raise("ValueError")
  ELSE LET p == Float(lv.items[1]) IN
       IF p.exc # "" THEN p
       ELSE LET q == Float(lv.items[2]) IN
            IF q.exc # "" THEN q ELSE Ok(<<p.v, q.v>>)

RECURSIVE ParseItems(_)
ParseItems(items) ==
  IF items = <<>> THEN Ok(<<>>)
  ELSE LET h == ParseLevel(Head(items)) IN
       IF h.exc # "" THEN h
       ELSE LET r == ParseItems(Tail(items)) IN
            IF r.exc # "" THEN r ELSE Ok(<<h.v>> \o r.v)

\* The list comprehension of lines 142-143 over data.get(side, []).
ParseLevels(data, side) ==
  LET j == IF side \in DOMAIN data.f THEN data.f[side] ELSE JArr(<<>>) IN
  IF j.ty # "arr" THEN Raise("TypeError") ELSE ParseItems(j.items)

\* An insertion that puts a level before the levels that sort equal to it.
RECURSIVE InsertDescUnstable(_, _)
InsertDescUnstable(s, x) ==
  IF s = <<>> THEN <<x>>
  ELSE IF Head(s)[1] > x[1] THEN <<Head(s)>> \o InsertDescUnstable(Tail(s), x)
  ELSE <<x>> \o s

\* list.sort is stable: a level goes after the levels that sort equal to it.
RECURSIVE InsertDesc(_, _)
InsertDesc(s, x) ==
  IF s = <<>> THEN <<x>>
  ELSE IF Head(s)[1] >= x[1] THEN <<Head(s)>> \o InsertDesc(Tail(s), x)
  ELSE <<x>> \o s

RECURSIVE InsertAsc(_, _)
InsertAsc(s, x) ==
  IF s = <<>> THEN <<x>>
  ELSE IF Head(s)[1] <= x[1] THEN <<Head(s)>> \o InsertAsc(Tail(s), x)
  ELSE <<x>> \o s

RECURSIVE SortInto(_, _, _)
SortInto(acc, items, desc) ==
  IF items = <<>> THEN acc
  ELSE SortInto(IF desc THEN InsertDesc(acc, Head(items))
                ELSE InsertAsc(acc, Head(items)), Tail(items), desc)

\* line 149 without reverse=True
SortBidsAscending(bids) == SortInto(<<>>, bids, FALSE)

\* line 149: bids.sort(reverse=True, key=price)
SortBids(bids) == SortInto(<<>>, bids, TRUE)
\* line 150: asks.sort(key=price)
SortAsks(asks) == SortInto(<<>>, asks, FALSE)

\* the slice left out: all of s
TakeAll(s, n) == s

\* lines 159-160: s[:n]
Take(s, n) == SubSeq(s, 1, Min(n, Len(s)))

RECURSIVE SumQty(_)
SumQty(levels) ==
  IF levels = <<>> THEN 0 ELSE Head(levels)[2] + SumQty(Tail(levels))

\* lines 153-183: the arguments of the update_book_metrics call, for
\* non-empty parsed sides; now is time.time().
DepthMetrics(bids, asks, now) ==
  LET sb == SortBids(bids)
      sa == SortAsks(asks)
      top_bids == Take(sb, TOP_N)
      top_asks == Take(sa, TOP_N)
      bid_volume == SumQty(top_bids)
      ask_volume == SumQty(top_asks)
      total_volume == bid_volume + ask_volume
  IN [ best_bid   |-> sb[1][1],
       best_ask   |-> sa[1][1],
       mid_price  |-> <<sb[1][1] + sa[1][1], 2>>,
       spread     |-> sa[1][1] - sb[1][1],
       imbalance  |-> IF total_volume > 0
                      THEN <<bid_volume - ask_volume, total_volume>>
                      ELSE <<0, 1>>,
       timestamp  |-> now,
       bid_volume |-> sb[1][2],
       ask_volume |-> sa[1][2],
       top_bids   |-> Some(top_bids),
       top_asks   |-> Some(top_asks) ]

\* What a handler asks of the store: nothing, or one call.
NoCall == [kind |-> "none"]
UpdateCall(a) == [kind |-> "update", a |-> a]
TradeCall(tr) == [kind |-> "trade", a |-> tr]

\* lines 140-183 without the return of lines 145-146: an empty side taken as
\* one level of price 0 and quantity 0.
DepthBodyEmptyAsZero(data, now) ==
  IF data.ty # "obj" THEN Raise("AttributeError")
  ELSE LET bids == ParseLevels(data, "bids") IN
       IF bids.exc # "" THEN bids
       ELSE LET asks == ParseLevels(data, "asks") IN
            IF asks.exc # "" THEN asks
            ELSE Ok(UpdateCall(DepthMetrics(
                   IF bids.v = <<>> THEN << <<0, 0>> >> ELSE bids.v,
                   IF asks.v = <<>> THEN << <<0, 0>> >> ELSE asks.v, now)))

\* lines 140-183 with a crossed or locked book returned from like an empty
\* one.
DepthBodyRejectsCrossed(data, now) ==
  IF data.ty # "obj" THEN Raise("AttributeError")
  ELSE LET bids == ParseLevels(data, "bids") IN
       IF bids.exc # "" THEN bids
       ELSE LET asks == ParseLevels(data, "asks") IN
            IF asks.exc # "" THEN asks
            ELSE IF bids.v = <<>> \/ asks.v = <<>> THEN Ok(NoCall)
            ELSE IF SortBids(bids.v)[1][1] >= SortAsks(asks.v)[1][1]
            THEN Ok(NoCall)
            ELSE Ok(UpdateCall(DepthMetrics(bids.v, asks.v, now)))

\* lines 140-183, the body of the try block: data.get raises AttributeError
\* when data is no dict.
DepthBody(data, now) ==
  IF data.ty # "obj" THEN Raise("AttributeError")
  ELSE LET bids == ParseLevels(data, "bids") IN
       IF bids.exc # "" THEN bids
       ELSE LET asks == ParseLevels(data, "asks") IN
            IF asks.exc # "" THEN asks
            ELSE IF bids.v = <<>> \/ asks.v = <<>> THEN Ok(NoCall)
            ELSE Ok(UpdateCall(DepthMetrics(bids.v, asks.v, now)))

\* line 185: except (KeyError, ValueError, IndexError)
DepthCatches(exc) == exc \in {"KeyError", "ValueError", "IndexError"}

\* _process_depth_update
ProcessDepthUpdate(data, now) ==
  LET r == DepthBody(data, now) IN
  IF r.exc # "" /\ DepthCatches(r.exc) THEN Ok(NoCall) ELSE r

\* bool(x) of a decoded JSON value
Truthy(j) ==
  CASE j.ty = "bool" -> j.b
    [] j.ty = "num" -> j.n # 0
    [] j.ty = "str" -> j.s # ""
    [] j.ty = "arr" -> j.items # <<>>
    [] j.ty = "obj" -> DOMAIN j.f # {}
    [] OTHER -> FALSE

\* The Python value of a decoded JSON boolean (other values stay tagged).
PyVal(j) == IF j.ty = "bool" THEN j.b ELSE j

\* x / 1000.0 (line 198): defined on numbers and bools only.
DivThousand(j) ==
  CASE j.ty = "num" -> Ok(<<j.n, 1000>>)
    [] j.ty = "bool" -> Ok(<<IF j.b THEN 1 ELSE 0, 1000>>)
    [] OTHER -> Raise("TypeError")

\* data[key] (lines 196-200): KeyError for a missing key, TypeError when data
\* is no dict.
Subscript(data, key) ==
  IF data.ty # "obj" THEN Raise("TypeError")
  ELSE IF key \notin DOMAIN data.f THEN Raise("KeyError")
  ELSE Ok(data.f[key])

\* lines 195-202, the body of the try block, evaluated in source order.
TradeBody(data) ==
  LET p == Subscript(data, "p") IN
  IF p.exc # "" THEN p ELSE
  LET price == Float(p.v) IN
  IF price.exc # "" THEN price ELSE
  LET q == Subscript(data, "q") IN
  IF q.exc # "" THEN q ELSE
  LET qty == Float(q.v) IN
  IF qty.exc # "" THEN qty ELSE
  LET T == Subscript(data, "T") IN
  IF T.exc # "" THEN T ELSE
  LET time == DivThousand(T.v) IN
  IF time.exc # "" THEN time ELSE
  LET m == Subscript(data, "m") IN
  IF m.exc # "" THEN m ELSE
  Ok(TradeCall([ price |-> price.v, qty |-> qty.v, time |-> time.v,
                 is_buyer_maker |-> PyVal(m.v),
                 side |-> IF Truthy(m.v) THEN "SELL" ELSE "BUY" ]))

\* line 204: except (KeyError, ValueError)
TradeCatches(exc) == exc \in {"KeyError", "ValueError"}

\* _process_trade_update
ProcessTradeUpdate(data) ==
  LET r == TradeBody(data) IN
  IF r.exc # "" /\ TradeCatches(r.exc) THEN Ok(NoCall) ELSE r

\* The words of the stream names of the inputs ('depth' in stream_name).
WordsOf ==
  ("btcusdt@depth@100ms" :> {"depth"}) @@ ("btcusdt@trade" :> {"trade"}) @@
  ("btcusdt@ticker" :> {}) @@ ("depth_trade" :> {"depth", "trade"})

\* "word in x" (lines 117, 123): substring of a str, key of a dict, element of
\* a list; TypeError on a value that is no container.
Contains(j, word) ==
  CASE j.ty = "str" -> Ok(j.s \in DOMAIN WordsOf /\ word \in WordsOf[j.s])
    [] j.ty = "obj" -> Ok(word \in DOMAIN j.f)
    [] j.ty = "arr" -> Ok(\E i \in 1..Len(j.items) : j.items[i] = JStr(word))
    [] OTHER -> Raise("TypeError")

\* A raw WebSocket message: text that json.loads decodes, or that it rejects.
Text(j) == [valid |-> TRUE, json |-> j]
Garbage == [valid |-> FALSE, json |-> JNull]

\* line 114: json.loads(message)
JsonLoads(message) ==
  IF message.valid THEN Ok(message.json) ELSE Raise("JSONDecodeError")

\* lines 114-126, the body of the try block
MessageBody(message, now) ==
  LET data == JsonLoads(message) IN
  IF data.exc # "" THEN data ELSE
  LET hasStream == Contains(data.v, "stream") IN
  IF hasStream.exc # "" THEN hasStream ELSE
  IF ~hasStream.v THEN Ok(NoCall) ELSE
  LET hasData == Contains(data.v, "data") IN
  IF hasData.exc # "" THEN hasData ELSE
  IF ~hasData.v THEN Ok(NoCall) ELSE
  LET stream_name == Subscript(data.v, "stream") IN
  IF stream_name.exc # "" THEN stream_name ELSE
  LET stream_data == Subscript(data.v, "data") IN
  IF stream_data.exc # "" THEN stream_data ELSE
  LET isDepth == Contains(stream_name.v, "depth") IN
  IF isDepth.exc # "" THEN isDepth ELSE
  IF isDepth.v THEN ProcessDepthUpdate(stream_data.v, now) ELSE
  LET isTrade == Contains(stream_name.v, "trade") IN
  IF isTrade.exc # "" THEN isTrade ELSE
  IF isTrade.v THEN ProcessTradeUpdate(stream_data.v) ELSE Ok(NoCall)

\* lines 128-131: except json.JSONDecodeError / except Exception
MessageCatchesDecodeOnly(exc) == exc = "JSONDecodeError"

MessageCatches(exc) == TRUE

\* _process_message: the store call it makes, or the exception it lets out.
ProcessMessage(message, now) ==
  LET r == MessageBody(message, now) IN
  IF r.exc # "" /\ MessageCatches(r.exc) THEN Ok(NoCall) ELSE r

\* ----------------------------------------------------------------- inputs
Times == {1, 2}

Level(p, q) == JArr(<<JStr(p), JStr(q)>>)
Depth(bids, asks) == JObj(("bids" :> JArr(bids)) @@ ("asks" :> JArr(asks)))
Trade(p, q, T, m) == JObj(("p" :> p) @@ ("q" :> q) @@ ("T" :> T) @@ ("m" :> m))
Envelope(stream, data) == Text(JObj(("stream" :> stream) @@ ("data" :> data)))
DepthStream == JStr("btcusdt@depth@100ms")
TradeStream == JStr("btcusdt@trade")

\* Well-formed messages of the combined stream.
GoodDepthMessages ==
  { Envelope(DepthStream, Depth(<<Level("2", "1"), Level("1", "2")>>,
                                <<Level("3", "1")>>)),
    Envelope(DepthStream, Depth(<<Level("1.00", "1"), Level("2.0", "2")>>,
                                <<Level("3", "2"), Level("2", "1")>>)) }

GoodTradeMessages ==
  { Envelope(TradeStream, Trade(JStr("1"), JStr("1"), JNum(1000), JBool(FALSE))),
    Envelope(TradeStream, Trade(JStr("2.0"), JStr("2"), JNum(2500), JBool(TRUE))) }

\* Messages that fail to decode or have the wrong shape.
MalformedMessages ==
  { Garbage,
    Text(JNum(5)),
    Text(JObj("stream" :> DepthStream)),
    Text(JObj("data" :> Depth(<<Level("2", "1")>>, <<Level("3", "1")>>))),
    Envelope(JNum(7), Depth(<<Level("2", "1")>>, <<Level("3", "1")>>)),
    Envelope(DepthStream, Depth(<<Level("abc", "1")>>, <<Level("3", "1")>>)),
    Envelope(DepthStream, Depth(<<Level("2", "1")>>, <<Level("3", "")>>)),
    Envelope(DepthStream, Depth(<<JArr(<<JStr("2")>>)>>, <<Level("3", "1")>>)),
    Envelope(DepthStream, Depth(<<Level("2", "1")>>,
                                <<JArr(<<JStr("3"), JNull>>)>>)),
    Envelope(DepthStream, Depth(<<JNum(2)>>, <<Level("3", "1")>>)),
    Envelope(DepthStream, JObj(("bids" :> JNum(2)) @@
                               ("asks" :> JArr(<<Level("3", "1")>>)))),
    Envelope(DepthStream, JArr(<<>>)),
    Envelope(TradeStream, JObj(("p" :> JStr("1")) @@ ("T" :> JNum(1000)) @@
                               ("m" :> JBool(TRUE)))),
    Envelope(TradeStream, JObj(("p" :> JStr("1")) @@ ("q" :> JStr("1")) @@
                               ("T" :> JNum(1000)))),
    Envelope(TradeStream, Trade(JStr("x"), JStr("1"), JNum(1000), JBool(TRUE))),
    Envelope(TradeStream, Trade(JNull, JStr("1"), JNum(1000), JBool(TRUE))),
    Envelope(TradeStream, Trade(JStr("1"), JStr("1"), JStr("1000"), JBool(TRUE))),
    Envelope(TradeStream, Trade(JStr("1"), JStr("1"), JNull, JBool(FALSE))),
    Envelope(TradeStream, JNum(3)) }

\* Well-formed messages that ask nothing of the store: another stream, and a
\* depth update with an empty side.
IgnoredMessages ==
  { Envelope(JStr("btcusdt@ticker"), Trade(JStr("1"), JStr("1"), JNum(1000),
                                           JBool(FALSE))),
    Envelope(DepthStream, Depth(<<Level("2", "1")>>, <<>>)) }

Messages ==
  GoodDepthMessages \cup GoodTradeMessages \cup MalformedMessages
    \cup IgnoredMessages

\* ------------------------------------------------------------------ state
VARIABLES
  store,     \* the MarketStore object's fields
  lock,      \* MarketStore._lock: 0 when free, else the thread holding it
  pc,        \* each thread's position in the method it is executing
  local,     \* each thread's arguments of the call in progress
  lastSnap,  \* the dict returned by the latest snapshot() call (None: none yet)
  calls,     \* history: how many calls of each method have been made
  mlog,      \* history: the arguments of the update_book_metrics calls since
             \* construction or the last clear(), in critical-section order
  tlog       \* history: likewise the trades given to add_trade

storeVars == <<store, lock, pc, local, lastSnap, calls, mlog, tlog>>

VARIABLES
  worker,           \* start_worker: "none" before the call, then "live" or "mock"
  cpc,              \* the position of the worker thread in connect_and_stream
  running,          \* BinanceStreamClient.running
  reconnect_delay,  \* BinanceStreamClient._reconnect_delay
  http_451_count,   \* run_async_loop's counter
  mock_started,     \* start_mock_worker has been called
  stopCalled,       \* history: stop() has been called on the client
  fails,            \* history: failed connection attempts since the last
                    \* successful one (or since the start)
  fails451,         \* history: the latest connection attempts that failed in a
                    \* row with HTTP 451 (counted up to the threshold)
  lastFailure,      \* history: the failure ("connect", "read", "probe") after
                    \* which no backoff sleep has been taken yet, or "none"
  lastMsg,          \* history: the class of the message just processed
  prevMsg           \* history: the class of the message processed before it

clientVars ==
  <<worker, cpc, running, reconnect_delay, http_451_count, mock_started,
    stopCalled, fails, fails451, lastFailure, lastMsg, prevMsg>>

VARIABLES
  depthSrc,  \* history: who produced the latest depth update: "live" for
             \* _process_depth_update, "mock" for the generator, "none" so far
  depthIn,   \* history: that update: the payload given to
             \* _process_depth_update, or the book the generator drew
  depthOut   \* history: how the handler ended: the store call it made, or
             \* the exception it let out

depthVars == <<depthSrc, depthIn, depthOut>>

VARIABLES
  tradeSrc,  \* history: who produced the latest trade: "live" for
             \* _process_trade_update, "mock" for the generator, "none" so far
  tradeIn,   \* history: that trade: the payload given to
             \* _process_trade_update, or what the generator drew
  tradeOut   \* history: how the handler ended: the store call it made, or
             \* the exception it let out

tradeVars == <<tradeSrc, tradeIn, tradeOut>>

VARIABLES
  current_price,  \* MockDataGenerator.current_price
  walk            \* history: the depth updates the generator has made

mockVars == <<current_price, walk>>

VARIABLES
  afterStop     \* history: the messages the live client has received while
                \* self.running was False (after stop())

stopVars == <<afterStop>>

VARIABLES
  gen_running,  \* MockDataGenerator.running
  gen_threads,  \* the threads started by start() that are inside _run
  gpc           \* where each caller of the generator's start()/stop() is

genVars == <<gen_running, gen_threads, gpc>>

handlerVars == <<depthVars, tradeVars, mockVars, stopVars, genVars>>

vars == <<storeVars, clientVars, handlerVars>>

NoCalls == [upd |-> 0, trade |-> 0, clear |-> 0, snap |-> 0]

TotalCalls == calls.upd + calls.trade + calls.clear

\* ------------------------------------------------- callers of the store API
\* Direct callers (tests/test_store.py): top levels are optional arguments.
UpdateInputs ==
  { [ best_bid |-> 1, best_ask |-> 2, mid_price |-> <<3, 2>>, spread |-> 1,
      imbalance |-> <<0, 1>>, timestamp |-> 1, bid_volume |-> 0,
      ask_volume |-> 0, top_bids |-> None, top_asks |-> None ],
    [ best_bid |-> 2, best_ask |-> 3, mid_price |-> <<5, 2>>, spread |-> 1,
      imbalance |-> <<-1, 3>>, timestamp |-> 2, bid_volume |-> 1,
      ask_volume |-> 2, top_bids |-> Some(<< <<2, 1>> >>),
      top_asks |-> Some(<< <<3, 2>> >>) ] }

TradeInputs ==
  { [ price |-> 1, qty |-> 1, time |-> <<1000, 1000>>,
      is_buyer_maker |-> FALSE, side |-> "BUY" ],
    [ price |-> 2, qty |-> 1, time |-> <<2000, 1000>>,
      is_buyer_maker |-> TRUE, side |-> "SELL" ] }

\* A call's arguments with (history) the call's id.  Every add_trade call of
\* the threads passes a dict of its own: the id names that dict object.
WithCall(a, id) == [x \in DOMAIN a \cup {"call"} |-> IF x = "call" THEN id ELSE a[x]]

\* MarketStore(max_metrics, max_trades): deque(maxlen=n) raises ValueError
\* for a negative n and accepts every other integer (store.py lines 26-32);
\* __init__ has no check of its own.
MarketStoreNew(max_metrics, max_trades) ==
  IF max_metrics < 0 \/ max_trades < 0 THEN Raise("ValueError")
  ELSE Ok(NewStore(max_metrics, max_trades))

StoreInit ==
  /\ \E mm \in Capacities, mt \in Capacities :
       /\ MarketStoreNew(mm, mt).exc = ""
       /\ store = MarketStoreNew(mm, mt).v
  /\ lock = 0
  /\ pc = [t \in Threads |-> "idle"]
  /\ local = [t \in Threads |-> <<>>]
  /\ lastSnap = None
  /\ calls = NoCalls
  /\ mlog = <<>>
  /\ tlog = <<>>

\* The calls of kind k ("u_wait", "t_wait") that have entered their critical
\* section so far: those made less those still waiting for the lock.
Entered(made, k) == made - Cardinality({t \in Threads : pc[t] = k})

\* A thread calls update_book_metrics(...) (store.py line 42).  The arguments
\* are private to the caller until the critical section reads them, so they
\* are drawn where the lock is acquired.
CallUpdate(t) ==
  /\ pc[t] = "idle"
  /\ TotalCalls < MaxCalls
  /\ calls' = [calls EXCEPT !.upd = @ + 1]
  /\ pc' = [pc EXCEPT ![t] = "u_wait"]
  /\ UNCHANGED <<store, lock, local, lastSnap, mlog, tlog, clientVars, handlerVars>>

\* store.py line 69: with self._lock
UpdAcquire(t) ==
  /\ pc[t] = "u_wait"
  /\ CanAcquire(lock)
  /\ lock' = t
  /\ \E a \in UpdateInputs :
       LET arg == WithCall(a, Entered(calls.upd, "u_wait") + 1) IN
         /\ local' = [local EXCEPT ![t] = arg]
         /\ mlog' = Append(mlog, arg)
  /\ pc' = [pc EXCEPT ![t] = "u_best"]
  /\ UNCHANGED <<store, lastSnap, calls, tlog, clientVars, handlerVars>>

UpdSetBest(t) ==
  /\ pc[t] = "u_best"
  /\ store' = SetBest(store, local[t])
  /\ pc' = [pc EXCEPT ![t] = "u_top"]
  /\ UNCHANGED <<lock, local, lastSnap, calls, mlog, tlog, clientVars, handlerVars>>

UpdSetTop(t) ==
  /\ pc[t] = "u_top"
  /\ store' = SetTop(store, local[t])
  /\ pc' = [pc EXCEPT ![t] = "u_mid"]
  /\ UNCHANGED <<lock, local, lastSnap, calls, mlog, tlog, clientVars, handlerVars>>

UpdAppendMid(t) ==
  /\ pc[t] = "u_mid"
  /\ store' = AppendMid(store, local[t])
  /\ pc' = [pc EXCEPT ![t] = "u_spread"]
  /\ UNCHANGED <<lock, local, lastSnap, calls, mlog, tlog, clientVars, handlerVars>>

UpdAppendSpread(t) ==
  /\ pc[t] = "u_spread"
  /\ store' = AppendSpread(store, local[t])
  /\ pc' = [pc EXCEPT ![t] = "u_imb"]
  /\ UNCHANGED <<lock, local, lastSnap, calls, mlog, tlog, clientVars, handlerVars>>

UpdAppendImbalance(t) ==
  /\ pc[t] = "u_imb"
  /\ store' = AppendImbalance(store, local[t])
  /\ pc' = [pc EXCEPT ![t] = "u_ts"]
  /\ UNCHANGED <<lock, local, lastSnap, calls, mlog, tlog, clientVars, handlerVars>>

\* store.py line 83, then the with block releases the lock.
UpdAppendTimestamp(t) ==
  /\ pc[t] = "u_ts"
  /\ store' = AppendTimestamp(store, local[t])
  /\ lock' = 0
  /\ pc' = [pc EXCEPT ![t] = "idle"]
  /\ local' = [local EXCEPT ![t] = <<>>]
  /\ UNCHANGED <<lastSnap, calls, mlog, tlog, clientVars, handlerVars>>

\* A thread calls add_trade(trade_data) (store.py line 85).
CallAddTrade(t) ==
  /\ pc[t] = "idle"
  /\ TotalCalls < MaxCalls
  /\ calls' = [calls EXCEPT !.trade = @ + 1]
  /\ pc' = [pc EXCEPT ![t] = "t_wait"]
  /\ UNCHANGED <<store, lock, local, lastSnap, mlog, tlog, clientVars, handlerVars>>

\* store.py line 92
TradeAcquire(t) ==
  /\ pc[t] = "t_wait"
  /\ CanAcquire(lock)
  /\ lock' = t
  /\ \E tr \in TradeInputs :
       LET arg == WithCall(tr, Entered(calls.trade, "t_wait") + 1) IN
         /\ local' = [local EXCEPT ![t] = arg]
         /\ tlog' = Append(tlog, arg)
  /\ pc' = [pc EXCEPT ![t] = "t_append"]
  /\ UNCHANGED <<store, lastSnap, calls, mlog, clientVars, handlerVars>>

\* store.py line 93, then release
TradeAppend(t) ==
  /\ pc[t] = "t_append"
  /\ store' = AddTrade(store, local[t])
  /\ lock' = 0
  /\ pc' = [pc EXCEPT ![t] = "idle"]
  /\ local' = [local EXCEPT ![t] = <<>>]
  /\ UNCHANGED <<lastSnap, calls, mlog, tlog, clientVars, handlerVars>>

\* A thread calls snapshot() (store.py line 95).
CallSnapshot(t) ==
  /\ pc[t] = "idle"
  /\ pc' = [pc EXCEPT ![t] = "s_wait"]
  /\ calls' = [calls EXCEPT !.snap = 1]
  /\ UNCHANGED <<store, lock, local, lastSnap, mlog, tlog, clientVars, handlerVars>>

\* store.py line 102
SnapAcquire(t) ==
  /\ pc[t] = "s_wait"
  /\ CanAcquire(lock)
  /\ lock' = t
  /\ pc' = [pc EXCEPT ![t] = "s_read"]
  /\ UNCHANGED <<store, local, lastSnap, calls, mlog, tlog, clientVars, handlerVars>>

\* store.py lines 103-129, then release
SnapRead(t) ==
  /\ pc[t] = "s_read"
  /\ lastSnap' = Some(Snapshot(store))
  /\ lock' = 0
  /\ pc' = [pc EXCEPT ![t] = "idle"]
  /\ UNCHANGED <<store, local, calls, mlog, tlog, clientVars, handlerVars>>

\* A thread calls clear() (store.py line 131).
CallClear(t) ==
  /\ pc[t] = "idle"
  /\ TotalCalls < MaxCalls
  /\ calls' = [calls EXCEPT !.clear = @ + 1]
  /\ pc' = [pc EXCEPT ![t] = "c_wait"]
  /\ UNCHANGED <<store, lock, local, lastSnap, mlog, tlog, clientVars, handlerVars>>

\* store.py line 133
ClearAcquire(t) ==
  /\ pc[t] = "c_wait"
  /\ CanAcquire(lock)
  /\ lock' = t
  /\ mlog' = <<>>
  /\ tlog' = <<>>
  /\ pc' = [pc EXCEPT ![t] = "c_series"]
  /\ UNCHANGED <<store, local, lastSnap, calls, clientVars, handlerVars>>

ClearDoSeries(t) ==
  /\ pc[t] = "c_series"
  /\ store' = ClearSeries(store)
  /\ pc' = [pc EXCEPT ![t] = "c_book"]
  /\ UNCHANGED <<lock, local, lastSnap, calls, mlog, tlog, clientVars, handlerVars>>

\* clear() that returns without releasing the lock
ClearDoBookKeepsLock(t) ==
  /\ pc[t] = "c_book"
  /\ store' = ClearBook(store)
  /\ pc' = [pc EXCEPT ![t] = "idle"]
  /\ UNCHANGED <<lock, local, lastSnap, calls, mlog, tlog, clientVars, handlerVars>>

\* store.py lines 139-144, then release
ClearDoBook(t) ==
  /\ pc[t] = "c_book"
  /\ store' = ClearBook(store)
  /\ lock' = 0
  /\ pc' = [pc EXCEPT ![t] = "idle"]
  /\ UNCHANGED <<local, lastSnap, calls, mlog, tlog, clientVars, handlerVars>>

StoreStep(t) ==
  \/ CallUpdate(t) \/ UpdAcquire(t) \/ UpdSetBest(t) \/ UpdSetTop(t)
  \/ UpdAppendMid(t) \/ UpdAppendSpread(t) \/ UpdAppendImbalance(t)
  \/ UpdAppendTimestamp(t)
  \/ CallAddTrade(t) \/ TradeAcquire(t) \/ TradeAppend(t)
  \/ CallSnapshot(t) \/ SnapAcquire(t) \/ SnapRead(t)
  \/ CallClear(t) \/ ClearAcquire(t) \/ ClearDoSeries(t) \/ ClearDoBook(t)

\* ------------------------------------------- the feed as the store's writer
\* The store calls that _process_message makes on the inputs.
FeedCalls ==
  { ProcessMessage(m, now).v :
      <<m, now>> \in { x \in Messages \X Times :
                         ProcessMessage(x[1], x[2]).exc = "" } }

\* A feed thread (connect_and_stream line 75) processes one message up to the
\* store call that the message leads to, if any.
FeedMessage(t) ==
  /\ pc[t] = "idle"
  /\ TotalCalls < MaxCalls
  /\ \E c \in FeedCalls :
       /\ pc' = [pc EXCEPT ![t] = CASE c.kind = "update" -> "u_wait"
                                    [] c.kind = "trade" -> "t_wait"
                                    [] OTHER -> "idle"]
       /\ calls' = [calls EXCEPT
                      !.upd = IF c.kind = "update" THEN @ + 1 ELSE @,
                      !.trade = IF c.kind = "trade" THEN @ + 1 ELSE @]
  /\ UNCHANGED <<store, lock, local, lastSnap, mlog, tlog, clientVars, handlerVars>>

\* store.py line 69, entered from _process_depth_update line 172; the call's
\* arguments are private to the thread until here.
FeedUpdAcquire(t) ==
  /\ pc[t] = "u_wait"
  /\ CanAcquire(lock)
  /\ lock' = t
  /\ \E c \in FeedCalls :
       /\ c.kind = "update"
       /\ LET arg == WithCall(c.a, Entered(calls.upd, "u_wait") + 1) IN
            /\ local' = [local EXCEPT ![t] = arg]
            /\ mlog' = Append(mlog, arg)
  /\ pc' = [pc EXCEPT ![t] = "u_best"]
  /\ UNCHANGED <<store, lastSnap, calls, tlog, clientVars, handlerVars>>

\* store.py line 92, entered from _process_trade_update line 202
FeedTradeAcquire(t) ==
  /\ pc[t] = "t_wait"
  /\ CanAcquire(lock)
  /\ lock' = t
  /\ \E c \in FeedCalls :
       /\ c.kind = "trade"
       /\ LET arg == WithCall(c.a, Entered(calls.trade, "t_wait") + 1) IN
            /\ local' = [local EXCEPT ![t] = arg]
            /\ tlog' = Append(tlog, arg)
  /\ pc' = [pc EXCEPT ![t] = "t_append"]
  /\ UNCHANGED <<store, lastSnap, calls, mlog, clientVars, handlerVars>>

FeedStep(t) ==
  \/ FeedMessage(t) \/ FeedUpdAcquire(t) \/ UpdSetBest(t) \/ UpdSetTop(t)
  \/ UpdAppendMid(t) \/ UpdAppendSpread(t) \/ UpdAppendImbalance(t)
  \/ UpdAppendTimestamp(t)
  \/ FeedTradeAcquire(t) \/ TradeAppend(t)
  \/ CallSnapshot(t) \/ SnapAcquire(t) \/ SnapRead(t)

\* --------------------------------------- BinanceStreamClient, start_worker
RECONNECT_BASE_DELAY == 1
RECONNECT_MAX_DELAY == 30
RECONNECT_MULTIPLIER == 2
\* stream_worker.py line 248: http_451_count >= 3
FAILOVER_THRESHOLD == 3

\* The connection attempts that the environment lets fail in a row.
MaxFails == 7

\* The errors of a failed websockets.connect: HTTP 451, or any other.
ConnectErrors == {"451", "refused"}

\* mock_data.py line 18: base_price: float = 96000.0
MOCK_BASE_PRICE == 96000
\* mock_data.py line 34: random.uniform(-5, 5)
MOCK_STEP == 5

\* No client exists: before start_worker, and in the runs of the store alone;
\* a generator starts at its base price (mock_data.py line 27).
ClientInit ==
  /\ worker = "none"
  /\ cpc = "absent"
  /\ running = FALSE
  /\ reconnect_delay = RECONNECT_BASE_DELAY
  /\ http_451_count = 0
  /\ mock_started = FALSE
  /\ stopCalled = FALSE
  /\ fails = 0
  /\ fails451 = 0
  /\ lastFailure = "none"
  /\ lastMsg = "none"
  /\ prevMsg = "none"
  /\ depthSrc = "none"
  /\ depthIn = <<>>
  /\ depthOut = <<>>
  /\ tradeSrc = "none"
  /\ tradeIn = <<>>
  /\ tradeOut = <<>>
  /\ current_price = MOCK_BASE_PRICE
  /\ walk = 0
  /\ afterStop = 0
  /\ gen_running = FALSE
  /\ gen_threads = 0
  /\ gpc = [t \in Threads |-> "idle"]

threadVars == <<lock, pc, local, lastSnap, calls, mlog, tlog>>

\* lines 224-228 without the return of line 228: the mock is started and
\* the live client is built and started as well.
StartWorkerMockNoReturn ==
  /\ worker = "none"
  /\ worker' = "live"
  /\ mock_started' = TRUE
  /\ running' = FALSE
  /\ reconnect_delay' = RECONNECT_BASE_DELAY
  /\ http_451_count' = 0
  /\ cpc' = "spawned"
  /\ UNCHANGED <<store, threadVars, handlerVars, stopCalled, fails, fails451,
                 lastFailure, lastMsg, prevMsg>>

\* lines 224-228: start_worker(store, use_mock=True)
StartWorkerMock ==
  /\ worker = "none"
  /\ worker' = "mock"
  /\ mock_started' = TRUE
  /\ UNCHANGED <<store, threadVars, handlerVars, cpc, running, reconnect_delay,
                 http_451_count, stopCalled, fails, fails451, lastFailure,
                 lastMsg, prevMsg>>

\* lines 230-263: start_worker(store) builds the client (lines 42-43) and
\* starts the thread that will run connect_and_stream.
StartWorkerLive ==
  /\ worker = "none"
  /\ worker' = "live"
  /\ running' = FALSE
  /\ reconnect_delay' = RECONNECT_BASE_DELAY
  /\ http_451_count' = 0
  /\ cpc' = "spawned"
  /\ UNCHANGED <<store, threadVars, handlerVars, mock_started, stopCalled, fails, fails451,
                 lastFailure, lastMsg, prevMsg>>

\* line 60: self.running = True
Begin ==
  /\ cpc = "spawned"
  /\ running' = TRUE
  /\ cpc' = "outer"
  /\ UNCHANGED <<store, threadVars, handlerVars, worker, reconnect_delay, http_451_count,
                 mock_started, stopCalled, fails, fails451, lastFailure,
                 lastMsg, prevMsg>>

\* lines 62, 69: while self.running
WhileTrue(r) == TRUE

WhileRunning(r) == r

\* line 62: the outer loop goes on to connect (line 65), or ends (line 105).
OuterLoop ==
  /\ cpc = "outer"
  /\ cpc' = IF WhileRunning(running) THEN "connecting" ELSE "stopped"
  /\ UNCHANGED <<store, threadVars, handlerVars, worker, running, reconnect_delay,
                 http_451_count, mock_started, stopCalled, fails, fails451,
                 lastFailure, lastMsg, prevMsg>>

\* lines 65-67: the handshake succeeds
ConnectOk ==
  /\ cpc = "connecting"
  /\ reconnect_delay' = RECONNECT_BASE_DELAY
  /\ cpc' = "inner"
  /\ fails' = 0
  /\ fails451' = 0
  /\ lastFailure' = "none"
  /\ lastMsg' = "none"
  /\ prevMsg' = "none"
  /\ UNCHANGED <<store, threadVars, handlerVars, worker, running, http_451_count,
                 mock_started, stopCalled>>

\* line 91: except Exception
OuterCatchesNothing(e) == FALSE

OuterCatches(e) == TRUE

\* websockets.connect raises e.  Line 91 catches it: lines 92-95 start the
\* backoff sleep, line 103 leaves the loop when stop() was called.  An
\* exception that line 91 let out would reach try_connect, lines 244-253.
ConnectFail(e) ==
  /\ cpc = "connecting"
  /\ fails < MaxFails
  /\ fails' = fails + 1
  /\ fails451' = IF e = "451" THEN Min(fails451 + 1, FAILOVER_THRESHOLD) ELSE 0
  /\ lastFailure' = "connect"
  /\ IF OuterCatches(e)
     THEN /\ cpc' = IF running THEN "sleep" ELSE "stopped"
          /\ UNCHANGED <<http_451_count, mock_started>>
     ELSE IF e = "451"
     THEN /\ http_451_count' = http_451_count + 1
          /\ mock_started' = (mock_started \/ http_451_count + 1 >= FAILOVER_THRESHOLD)
          /\ cpc' = IF http_451_count + 1 >= FAILOVER_THRESHOLD
                    THEN "returned" ELSE "raised"
     ELSE /\ cpc' = "raised"
          /\ UNCHANGED <<http_451_count, mock_started>>
  /\ UNCHANGED <<store, threadVars, handlerVars, worker, running, reconnect_delay,
                 stopCalled, lastMsg, prevMsg>>

\* lines 98-101
NextDelayNoCap(d) == d * RECONNECT_MULTIPLIER

NextDelay(d) == Min(d * RECONNECT_MULTIPLIER, RECONNECT_MAX_DELAY)

\* lines 95-101: asyncio.sleep(self._reconnect_delay) is over; the delay grows.
SleepDone ==
  /\ cpc = "sleep"
  /\ reconnect_delay' = NextDelay(reconnect_delay)
  /\ lastFailure' = "none"
  /\ cpc' = "outer"
  /\ UNCHANGED <<store, threadVars, handlerVars, worker, running, http_451_count,
                 mock_started, stopCalled, fails, fails451, lastMsg, prevMsg>>

\* line 69: the inner loop goes on to receive (line 71), or leaves the
\* "async with" block, which closes the connection.
InnerLoop ==
  /\ cpc = "inner"
  /\ cpc' = IF WhileRunning(running) THEN "recv" ELSE "outer"
  /\ prevMsg' = IF WhileRunning(running) THEN lastMsg ELSE prevMsg
  /\ lastMsg' = IF WhileRunning(running) THEN "none" ELSE lastMsg
  /\ UNCHANGED <<store, threadVars, handlerVars, worker, running, reconnect_delay,
                 http_451_count, mock_started, stopCalled, fails, fails451,
                 lastFailure>>

\* The store after the call c that a message handler makes.  The critical
\* sections run whole: nothing else uses the store of these runs.
ApplyCall(s, c) ==
  CASE c.kind = "update" -> UpdateBookMetrics(s, WithCall(c.a, 0))
    [] c.kind = "trade" -> AddTrade(s, WithCall(c.a, 0))
    [] OTHER -> s

MsgClass(m) ==
  IF m \in MalformedMessages THEN "malformed"
  ELSE IF m \in IgnoredMessages THEN "ignored" ELSE "good"

\* lines 71-75: a message arrives and _process_message handles it; an
\* exception out of it would end the connection (lines 87-89).
RecvMessage(m, now) ==
  /\ cpc = "recv"
  /\ LET r == ProcessMessage(m, now) IN
       IF r.exc = ""
       THEN /\ store' = ApplyCall(store, r.v)
            /\ cpc' = "inner"
            /\ UNCHANGED lastFailure
       ELSE /\ cpc' = "outer"
            /\ lastFailure' = "read"
            /\ UNCHANGED store
  /\ lastMsg' = MsgClass(m)
  /\ afterStop' = IF running THEN afterStop ELSE afterStop + 1
  /\ UNCHANGED <<threadVars, depthVars, tradeVars, mockVars, genVars, worker,
                 running, reconnect_delay, http_451_count, mock_started,
                 stopCalled, fails, fails451, prevMsg>>

\* lines 77-82: no message within 60 s; a ping is sent
RecvTimeout ==
  /\ cpc = "recv"
  /\ cpc' = "ping"
  /\ UNCHANGED <<store, threadVars, handlerVars, worker, running, reconnect_delay,
                 http_451_count, mock_started, stopCalled, fails, fails451,
                 lastFailure, lastMsg, prevMsg>>

\* lines 87-89: recv raises (the connection dropped); break
RecvError ==
  /\ cpc = "recv"
  /\ cpc' = "outer"
  /\ lastFailure' = "read"
  /\ UNCHANGED <<store, threadVars, handlerVars, worker, running, reconnect_delay,
                 http_451_count, mock_started, stopCalled, fails, fails451,
                 lastMsg, prevMsg>>

\* a pong that is answered by leaving the receive loop
PingOkBreaks ==
  /\ cpc = "ping"
  /\ cpc' = "outer"
  /\ UNCHANGED <<store, threadVars, handlerVars, worker, running, reconnect_delay,
                 http_451_count, mock_started, stopCalled, fails, fails451,
                 lastFailure, lastMsg, prevMsg>>

\* line 82: the pong arrives within 10 s
PingOk ==
  /\ cpc = "ping"
  /\ cpc' = "inner"
  /\ UNCHANGED <<store, threadVars, handlerVars, worker, running, reconnect_delay,
                 http_451_count, mock_started, stopCalled, fails, fails451,
                 lastFailure, lastMsg, prevMsg>>

\* lines 83-85: the ping fails or times out; break
PingFail ==
  /\ cpc = "ping"
  /\ cpc' = "outer"
  /\ lastFailure' = "probe"
  /\ UNCHANGED <<store, threadVars, handlerVars, worker, running, reconnect_delay,
                 http_451_count, mock_started, stopCalled, fails, fails451,
                 lastMsg, prevMsg>>

\* lines 207-209: stop(), from any thread, at any time in the client's life
Stop ==
  /\ worker = "live"
  /\ running' = FALSE
  /\ stopCalled' = TRUE
  /\ UNCHANGED <<store, threadVars, handlerVars, worker, cpc, reconnect_delay,
                 http_451_count, mock_started, fails, fails451, lastFailure,
                 lastMsg, prevMsg>>

\* The steps of the worker thread's coroutine.
ClientStep ==
  \/ Begin \/ OuterLoop \/ ConnectOk
  \/ \E e \in ConnectErrors : ConnectFail(e)
  \/ SleepDone \/ InnerLoop
  \/ \E m \in Messages, now \in Times : RecvMessage(m, now)
  \/ RecvTimeout \/ RecvError \/ PingOk \/ PingFail

\* ---------------------------------------------------------- specifications
\* The store under threads that call its public methods directly.
Init == StoreInit /\ ClientInit
Next == \E t \in Threads : StoreStep(t)
Spec == Init /\ [][Next]_vars

\* The capacities of the store of the feed's runs.
FeedCapacities == {2}

\* The store under feed threads (writers) and snapshot readers.
InitFeed ==
  /\ \E mm \in FeedCapacities, mt \in FeedCapacities :
       store = NewStore(mm, mt)
  /\ lock = 0
  /\ pc = [t \in Threads |-> "idle"]
  /\ local = [t \in Threads |-> <<>>]
  /\ lastSnap = None
  /\ calls = NoCalls
  /\ mlog = <<>>
  /\ tlog = <<>>
  /\ ClientInit
NextFeed == \E t \in Threads : FeedStep(t)
SpecFeed == InitFeed /\ [][NextFeed]_vars

\* The capacities of the store of the client's runs.
ClientCapacities == {1}

\* start_worker and the live client, with stop() as the environment's call.
\* The event loop resumes the coroutine whenever the operation it awaits has
\* completed or timed out.
InitClient ==
  /\ \E mm \in ClientCapacities, mt \in ClientCapacities :
       store = NewStore(mm, mt)
  /\ lock = 0
  /\ pc = [t \in Threads |-> "idle"]
  /\ local = [t \in Threads |-> <<>>]
  /\ lastSnap = None
  /\ calls = NoCalls
  /\ mlog = <<>>
  /\ tlog = <<>>
  /\ ClientInit
NextClient == StartWorkerMock \/ StartWorkerLive \/ Stop \/ ClientStep
SpecClient == InitClient /\ [][NextClient]_vars /\ WF_vars(ClientStep)

\* ------------------------------------------- the depth handlers on their own
\* The longest side of the enumerated depth updates.
MaxLevels == 2

\* The levels of the enumerated sides.
DepthLevels == { Level("1", "1"), Level("2", "3") }

\* All sequences over S of length at most n.
RECURSIVE SeqsUpTo(_, _)
SeqsUpTo(S, n) ==
  IF n = 0 THEN { <<>> }
  ELSE LET shorter == SeqsUpTo(S, n - 1) IN
       shorter \cup { Append(q, x) : q \in shorter, x \in S }

\* Sides paired with every other side: the empty side, a side with a negative
\* quantity (float() accepts "-1"), a side of more than TOP_N levels out of
\* order, its highest and its lowest price each on two levels.
CoreSides ==
  { <<>>,
    << Level("3", "-1") >>,
    << Level("2", "1"), Level("3", "1"), Level("0", "2"), Level("3", "2"),
       Level("0", "1"), Level("2", "0") >> }

\* The sides of the depth updates: the core sides, and every order of up to
\* MaxLevels levels.
DepthSides == SeqsUpTo(DepthLevels, MaxLevels) \cup CoreSides

\* The payloads given to _process_depth_update: one side any, the other a
\* core side.
DepthInputs ==
  { Depth(b, a) : b \in DepthSides, a \in CoreSides } \cup
  { Depth(b, a) : b \in CoreSides, a \in DepthSides }

\* mock_data.py lines 39, 46: range(10); lines 62-63: bids[:5], asks[:5]
MOCK_LEVELS == 10
MOCK_TOP_N == 5

\* Books the generator can draw (lines 38-49): MOCK_LEVELS levels a side,
\* the i-th at current_price -/+ i * uniform(0.5, 2.0), quantities positive.
MockBids ==
  { << <<10, 1>>, <<9, 2>>, <<7, 1>>, <<8, 3>>, <<6, 1>>, <<9, 1>>, <<4, 2>>,
       <<5, 1>>, <<3, 1>>, <<6, 2>> >>,
    << <<10, 2>>, <<8, 1>>, <<9, 1>>, <<7, 2>>, <<5, 1>>, <<6, 1>>, <<3, 2>>,
       <<4, 1>>, <<2, 1>>, <<1, 1>> >> }

MockAsks ==
  { << <<10, 1>>, <<11, 2>>, <<13, 1>>, <<12, 1>>, <<14, 3>>, <<11, 1>>,
       <<16, 1>>, <<15, 2>>, <<17, 1>>, <<14, 1>> >>,
    << <<10, 3>>, <<12, 1>>, <<11, 1>>, <<13, 2>>, <<15, 1>>, <<14, 1>>,
       <<17, 2>>, <<16, 1>>, <<18, 1>>, <<19, 1>> >> }

\* mock_data.py lines 51-83: the arguments of the generator's
\* update_book_metrics call for the drawn book.
MockDepthMetrics(bids, asks, now) ==
  LET sb == SortBids(bids)
      sa == SortAsks(asks)
      top_bids == Take(sb, MOCK_TOP_N)
      top_asks == Take(sa, MOCK_TOP_N)
      bid_volume == SumQty(top_bids)
      ask_volume == SumQty(top_asks)
      total_volume == bid_volume + ask_volume
  IN [ best_bid   |-> sb[1][1],
       best_ask   |-> sa[1][1],
       mid_price  |-> <<sb[1][1] + sa[1][1], 2>>,
       spread     |-> sa[1][1] - sb[1][1],
       imbalance  |-> IF total_volume > 0
                      THEN <<bid_volume - ask_volume, total_volume>>
                      ELSE <<0, 1>>,
       timestamp  |-> now,
       bid_volume |-> sb[1][2],
       ask_volume |-> sa[1][2],
       top_bids   |-> Some(top_bids),
       top_asks   |-> Some(top_asks) ]

\* client._process_depth_update(data), as the message handler (line 124) and
\* the tests call it; an exception it lets out leaves the store as it was.
ProcessDepth(data, now) ==
  /\ LET r == ProcessDepthUpdate(data, now) IN
       /\ store' = IF r.exc = "" THEN ApplyCall(store, r.v) ELSE store
       /\ depthOut' = r
  /\ depthSrc' = "live"
  /\ depthIn' = data
  /\ UNCHANGED <<threadVars, clientVars, tradeVars, mockVars, stopVars, genVars>>

\* MockDataGenerator._generate_depth_update (mock_data.py lines 31-83)
MockDepth(bids, asks, now) ==
  /\ Len(bids) = MOCK_LEVELS
  /\ Len(asks) = MOCK_LEVELS
  /\ LET c == UpdateCall(MockDepthMetrics(bids, asks, now)) IN
       /\ store' = ApplyCall(store, c)
       /\ depthOut' = Ok(c)
  /\ depthSrc' = "mock"
  /\ depthIn' = [bids |-> bids, asks |-> asks]
  /\ UNCHANGED <<threadVars, clientVars, tradeVars, mockVars, stopVars, genVars>>

\* The capacities of the store of the handlers' runs, and the clock's
\* readings (time.time(), line 169) in them.
DepthCapacities == {1}
DepthTimes == {1}

InitDepth ==
  /\ \E mm \in DepthCapacities, mt \in DepthCapacities :
       store = NewStore(mm, mt)
  /\ lock = 0
  /\ pc = [t \in Threads |-> "idle"]
  /\ local = [t \in Threads |-> <<>>]
  /\ lastSnap = None
  /\ calls = NoCalls
  /\ mlog = <<>>
  /\ tlog = <<>>
  /\ ClientInit
NextDepth ==
  \/ \E data \in DepthInputs, now \in DepthTimes : ProcessDepth(data, now)
  \/ \E bids \in MockBids, asks \in MockAsks, now \in DepthTimes :
       MockDepth(bids, asks, now)
SpecDepth == InitDepth /\ [][NextDepth]_vars

\* ------------------------------------------------------------------ claims
\* A thread is inside a critical section that writes the store.
Writing(t) ==
  pc[t] \in {"u_best", "u_top", "u_mid", "u_spread", "u_imb", "u_ts",
             "t_append", "c_series", "c_book"}

AllIdle == \A t \in Threads : pc[t] = "idle"

\* The four series of r (the store, or a snapshot) have one length and their
\* i-th points come from one update_book_metrics call.
Aligned(r) ==
  /\ Len(r.spreads) = Len(r.mid_prices)
  /\ Len(r.imbalances) = Len(r.mid_prices)
  /\ Len(r.timestamps) = Len(r.mid_prices)
  /\ \A i \in 1..Len(r.mid_prices) :
       /\ r.spreads[i].call = r.mid_prices[i].call
       /\ r.imbalances[i].call = r.mid_prices[i].call
       /\ r.timestamps[i].call = r.mid_prices[i].call

\* C1: whenever no writer is inside its critical section, and in every
\* snapshot returned, the four series have the same length and their i-th
\* elements were appended by the same update_book_metrics call.
C1_SeriesAligned ==
  /\ (\A t \in Threads : ~Writing(t)) => Aligned(store)
  /\ lastSnap # None => Aligned(lastSnap[1])

\* C1 witness: a snapshot with two points of different calls was returned
\* while the other thread is in the middle of an update.
C1_Witness ==
  /\ lastSnap # None
  /\ Len(lastSnap[1].mid_prices) = 2
  /\ lastSnap[1].mid_prices[1].call # lastSnap[1].mid_prices[2].call
  /\ \E t \in Threads : pc[t] = "u_spread"

\* The points that the logged update calls append to a series.
Logged(field) ==
  [i \in 1..Len(mlog) |-> Point(mlog[i][field], mlog[i])]

\* C2: after N update_book_metrics calls each series holds the last
\* min(N, max_metrics) inserted values in arrival order, and after M add_trade
\* calls the trade log holds the last min(M, max_trades) trades in insertion
\* order, each capacity on its own.
C2_LastInserted ==
  (\A t \in Threads : ~Writing(t)) =>
    /\ Len(store.mid_prices) = Min(Len(mlog), store.max_metrics)
    /\ store.mid_prices = LastN(Logged("mid_price"), store.max_metrics)
    /\ store.spreads = LastN(Logged("spread"), store.max_metrics)
    /\ store.imbalances = LastN(Logged("imbalance"), store.max_metrics)
    /\ store.timestamps = LastN(Logged("timestamp"), store.max_metrics)
    /\ Len(store.recent_trades) = Min(Len(tlog), store.max_trades)
    /\ store.recent_trades = LastN(tlog, store.max_trades)
    /\ (AllIdle /\ calls.clear = 0) =>
         (Len(mlog) = calls.upd /\ Len(tlog) = calls.trade)

\* C2 witness: three updates went into a store of capacity 2, whose trade
\* capacity is another.
C2_Witness ==
  /\ AllIdle
  /\ calls.upd = 3
  /\ store.max_metrics = 2
  /\ store.max_trades = 1
  /\ Len(store.mid_prices) = 2
  /\ store.mid_prices[1].call = 2

\* C3: every snapshot's best bid/ask are the prices of top_bids[0] and
\* top_asks[0], and all three were written by the same update_book_metrics
\* call (a snapshot of the empty store has neither).
C3_NoTornRead ==
  lastSnap # None =>
    LET s == lastSnap[1] IN
    IF s.best_call = 0
    THEN s.best_bid = None /\ s.best_ask = None
         /\ s.top_bids = <<>> /\ s.top_asks = <<>>
    ELSE /\ s.top_bids_call = s.best_call
         /\ s.top_asks_call = s.best_call
         /\ s.top_bids # <<>> /\ s.top_asks # <<>>
         /\ s.best_bid = Some(s.top_bids[1][1])
         /\ s.best_ask = Some(s.top_asks[1][1])

\* C3 witness: a snapshot of the second depth update was returned while the
\* other thread is writing the third.
C3_Witness ==
  /\ lastSnap # None
  /\ lastSnap[1].best_call = 2
  /\ lastSnap[1].top_bids_call = 2
  /\ \E t \in Threads : pc[t] = "u_top" /\ local[t].call = 3

\* C4: once every call has returned (and clear() was never called), the
\* snapshot's data_points is min(max_metrics, update_book_metrics calls made)
\* and it lists min(max_trades, add_trade calls made) trades.
C4_NoLostUpdate ==
  (AllIdle /\ calls.clear = 0) =>
    /\ Snapshot(store).data_points = Min(store.max_metrics, calls.upd)
    /\ Len(Snapshot(store).recent_trades) = Min(store.max_trades, calls.trade)

\* C4 witness: two updates and a trade, with a snapshot taken on the way,
\* have all returned.
C4_Witness ==
  /\ AllIdle
  /\ calls = [upd |-> 2, trade |-> 1, clear |-> 0, snap |-> 1]
  /\ lastSnap # None
  /\ lastSnap[1].data_points = 1
  /\ store.max_metrics = 2
  /\ Len(store.mid_prices) = 2

\* C5: three connection attempts in a row that fail with HTTP 451 make the
\* live worker switch to the mock source (unless it is stopped first), and it
\* does not switch with fewer.
C5_FailoverAfterThree ==
  /\ [](((fails451 >= 3) /\ ~stopCalled) => <>(mock_started \/ stopCalled))
  /\ []((worker = "live" /\ mock_started) => fails451 >= 3)

\* The delay of the k-th failed attempt in a row: 1, 2, 4, 8, 16, 30, 30, ...
ClaimedDelay(k) == IF k <= 5 THEN 2 ^ (k - 1) ELSE 30

Connected == cpc \in {"inner", "recv", "ping"}

\* C6: the delay starts at 1; the k-th connection attempt that fails in a row
\* sleeps for the k-th delay of 1, 2, 4, 8, 16, 30, 30, ... and the delay is
\* the next one of the sequence afterwards; a successful connection resets
\* it to 1.
C6_BackoffSequence ==
  /\ cpc = "spawned" => reconnect_delay = 1
  /\ cpc = "sleep" => (fails >= 1 /\ reconnect_delay = ClaimedDelay(fails))
  /\ cpc \in {"outer", "connecting"} => reconnect_delay = ClaimedDelay(fails + 1)
  /\ Connected => (fails = 0 /\ reconnect_delay = 1)

\* C6 witness: the seventh failed attempt in a row sleeps 30 s.
C6_Witness == cpc = "sleep" /\ fails = 7 /\ reconnect_delay = 30

\* C7: no connection attempt is made after a failure (a failed attempt, a
\* read error, a failed probe) before a backoff sleep has been taken.
C7_BackoffBeforeReconnect == cpc = "connecting" => lastFailure = "none"

\* C8: once stop() has been called the client starts no connection attempt.
C8_NoAttemptAfterStop ==
  [][stopCalled => ~(cpc # "connecting" /\ cpc' = "connecting")]_vars

\* C9: after stop() on a client that is running connect_and_stream, the
\* operation it is suspended in ends and connect_and_stream returns.
C9_StopTerminates ==
  (~running /\ cpc \notin {"absent", "spawned"}) ~> (cpc = "stopped")

\* C9 witness: a client that has streamed data and been stopped has returned.
C9_Witness ==
  /\ stopCalled
  /\ cpc = "stopped"
  /\ store.mid_prices # <<>>
  /\ fails >= 1

FatalError == lastFailure # "none"
SoftError == cpc = "ping" \/ lastMsg = "malformed"

\* connect_and_stream has ended: by returning, by raising into try_connect,
\* or with try_connect's switch to the mock source.
Terminated == cpc \in {"stopped", "raised", "returned"}

\* A step that handles a feed-level error.
ErrorStep ==
  \/ lastFailure' # "none" /\ lastFailure' # lastFailure
  \/ cpc = "recv" /\ cpc' = "ping"
  \/ cpc = "ping" /\ cpc' # "ping"
  \/ lastMsg = "none" /\ lastMsg' = "malformed"

\* C11 (as stated): no feed-level error ends connect_and_stream or changes the
\* store while stop() has not been called, and after every such error (failed
\* or dropped connection, receive timeout, failed probe, malformed message)
\* the client eventually attempts to connect again.
C11_AlwaysReconnects ==
  /\ [](~stopCalled => ~Terminated)
  /\ [][ErrorStep => store' = store]_vars
  /\ ((FatalError \/ SoftError) /\ ~stopCalled)
       ~> (cpc = "connecting" \/ stopCalled)

\* C11 (amended): no feed-level error ends connect_and_stream or changes the
\* store while stop() has not been called; after a failed connection, a
\* dropped connection or a failed probe the client eventually attempts to
\* connect again, and after a receive timeout or a malformed message it
\* eventually waits for the next message or attempts to connect again.
C11_ErrorsHandledLocally ==
  /\ [](~stopCalled => ~Terminated)
  /\ [][ErrorStep => store' = store]_vars
  /\ (FatalError /\ ~stopCalled) ~> (cpc = "connecting" \/ stopCalled)
  /\ (SoftError /\ ~stopCalled)
       ~> (cpc \in {"recv", "connecting"} \/ stopCalled)

\* C11 witness: the client is connecting again after a read error on a
\* connection that had stored data, stop() not called.
C11_Witness ==
  /\ cpc = "connecting"
  /\ lastFailure = "read"
  /\ ~stopCalled
  /\ store.mid_prices # <<>>

\* The depth payload has an empty bids list or an empty asks list.
EmptySide(data) == data.f["bids"].items = <<>> \/ data.f["asks"].items = <<>>

\* C12: a depth update with empty bids or empty asks appends no point to any
\* series and leaves best bid/ask, the volumes and the top levels as they were.
C12_EmptySideNoEffect ==
  [][(depthSrc' = "live" /\ EmptySide(depthIn')) => store' = store]_vars

\* C12 witness: an update with an empty side was handled on a store that holds
\* an earlier update.
C12_Witness ==
  /\ depthSrc = "live"
  /\ EmptySide(depthIn)
  /\ depthOut = Ok(NoCall)
  /\ store.mid_prices # <<>>
  /\ store.best_bid # None

\* ------------------------------------------- consumers that write snapshots
\* d[key] = value on the trade dict object id: every list that holds the
\* object shows the write.
WriteTrade(trades, id, key, value) ==
  [i \in DOMAIN trades |->
     IF trades[i].call = id THEN [trades[i] EXCEPT ![key] = value]
     ELSE trades[i]]

\* The prices a consumer writes into a snapshot's trade.
Scribbles == {0}

\* A consumer sets snapshot['recent_trades'][i]['price'].  Line 124 builds a
\* new list of the dicts the deque holds (line 93 stored the caller's dict), so
\* the dict written is the one in self.recent_trades.
MutateSnapshotTrade ==
  /\ lastSnap # None
  /\ \E i \in DOMAIN lastSnap[1].recent_trades, v \in Scribbles :
       LET id == lastSnap[1].recent_trades[i].call IN
         /\ lastSnap' = Some([lastSnap[1] EXCEPT
                                !.recent_trades = WriteTrade(@, id, "price", v)])
         /\ store' = [store EXCEPT
                        !.recent_trades = WriteTrade(@, id, "price", v)]
  /\ UNCHANGED <<lock, pc, local, calls, mlog, tlog, clientVars, handlerVars>>

\* A consumer removes the first element of snapshot['recent_trades'], a list
\* that line 124 built for this snapshot alone.
MutateSnapshotList ==
  /\ lastSnap # None
  /\ lastSnap[1].recent_trades # <<>>
  /\ lastSnap' = Some([lastSnap[1] EXCEPT !.recent_trades = Tail(@)])
  /\ UNCHANGED <<store, lock, pc, local, calls, mlog, tlog, clientVars,
                 handlerVars>>

\* The capacities of the store of the consumers' runs.
AliasCapacities == {2}

\* Threads that add trades and take snapshots, and consumers that write into
\* the snapshots they were given.
InitAlias ==
  /\ \E mm \in AliasCapacities, mt \in AliasCapacities :
       store = NewStore(mm, mt)
  /\ lock = 0
  /\ pc = [t \in Threads |-> "idle"]
  /\ local = [t \in Threads |-> <<>>]
  /\ lastSnap = None
  /\ calls = NoCalls
  /\ mlog = <<>>
  /\ tlog = <<>>
  /\ ClientInit
AliasStep(t) ==
  \/ CallAddTrade(t) \/ TradeAcquire(t) \/ TradeAppend(t)
  \/ CallSnapshot(t) \/ SnapAcquire(t) \/ SnapRead(t)
NextAlias ==
  \/ \E t \in Threads : AliasStep(t)
  \/ MutateSnapshotTrade
  \/ MutateSnapshotList
SpecAlias == InitAlias /\ [][NextAlias]_vars

\* C13: writing into a returned snapshot (its lists, its trade records) never
\* changes what a later snapshot() returns.
C13_SnapshotIndependent ==
  [][(lastSnap # None /\ lastSnap' # lastSnap /\ pc' = pc)
       => Snapshot(store') = Snapshot(store)]_vars

\* C14: once an update_book_metrics call has left its critical section, the
\* best bid/ask and volumes, the top bid and ask levels and the newest point
\* of the series are all those of that call: no top level written by an
\* earlier call remains.
C14_UpdateReplacesAll ==
  (\A t \in Threads : ~Writing(t)) =>
    /\ store.top_bids # <<>> => store.top_bids_call = store.best_call
    /\ store.top_asks # <<>> => store.top_asks_call = store.best_call
    /\ (store.best_call # 0 /\ store.max_metrics > 0) =>
         /\ store.mid_prices # <<>>
         /\ store.mid_prices[Len(store.mid_prices)].call = store.best_call

\* A snapshot() call returns in this step.
SnapshotReturns == \E t \in Threads : pc[t] = "s_read" /\ pc'[t] = "idle"

\* C15: in the snapshot that a call returns, recent_trades lists the retained
\* trades newest first (the i-th is the i-th from the end of the insertions)
\* and the four series list the retained points oldest first.
C15_SnapshotOrder ==
  [][SnapshotReturns =>
       LET snap == lastSnap'[1]
           kept == LastN(tlog, store.max_trades)
       IN /\ Len(snap.recent_trades) = Len(kept)
          /\ \A i \in 1..Len(kept) :
               snap.recent_trades[i] = kept[Len(kept) + 1 - i]
          /\ snap.mid_prices = LastN(Logged("mid_price"), store.max_metrics)
          /\ snap.spreads = LastN(Logged("spread"), store.max_metrics)
          /\ snap.imbalances = LastN(Logged("imbalance"), store.max_metrics)
          /\ snap.timestamps = LastN(Logged("timestamp"), store.max_metrics)]_vars

\* C15 witness: a snapshot with two trades, the later one first, and a point.
C15_Witness ==
  /\ lastSnap # None
  /\ Len(lastSnap[1].recent_trades) = 2
  /\ lastSnap[1].recent_trades[1].call = 2
  /\ lastSnap[1].recent_trades[2].call = 1
  /\ lastSnap[1].mid_prices # <<>>

\* C16: in every snapshot data_points is the length of each of the four
\* series, and last_update, current_mid, current_spread and
\* current_imbalance are the last elements of their series, None exactly when
\* the series are empty.
C16_SnapshotSummary ==
  lastSnap # None =>
    LET s == lastSnap[1]
        n == s.data_points
    IN /\ Len(s.mid_prices) = n /\ Len(s.spreads) = n
       /\ Len(s.imbalances) = n /\ Len(s.timestamps) = n
       /\ IF n = 0
          THEN /\ s.last_update = None /\ s.current_mid = None
               /\ s.current_spread = None /\ s.current_imbalance = None
          ELSE /\ s.last_update = Some(s.timestamps[n].v)
               /\ s.current_mid = Some(s.mid_prices[n].v)
               /\ s.current_spread = Some(s.spreads[n].v)
               /\ s.current_imbalance = Some(s.imbalances[n].v)

\* C16 witness: a snapshot of two points with different values, taken while
\* the other thread is appending a third.
C16_Witness ==
  /\ lastSnap # None
  /\ lastSnap[1].data_points = 2
  /\ lastSnap[1].mid_prices[1].v # lastSnap[1].mid_prices[2].v
  /\ lastSnap[1].timestamps[1].v # lastSnap[1].timestamps[2].v
  /\ \E t \in Threads : pc[t] = "u_imb"

\* A clear() call returns in this step.
ClearReturns == \E t \in Threads : pc[t] = "c_book" /\ pc'[t] = "idle"

\* C17: when clear() returns, the store is the freshly constructed store of
\* the same capacities, and so is its snapshot; the insertions made after a
\* clear() are kept up to the same capacities.
C17_ClearResets ==
  /\ [][ClearReturns =>
          /\ store' = NewStore(store.max_metrics, store.max_trades)
          /\ Snapshot(store') =
               Snapshot(NewStore(store.max_metrics, store.max_trades))]_vars
  /\ []((calls.clear > 0 /\ \A t \in Threads : ~Writing(t)) =>
          /\ store.mid_prices = LastN(Logged("mid_price"), store.max_metrics)
          /\ store.timestamps = LastN(Logged("timestamp"), store.max_metrics)
          /\ store.recent_trades = LastN(tlog, store.max_trades))

\* C17 witness: clear() has emptied a store that held a point and a trade.
C17_Witness ==
  /\ AllIdle
  /\ calls.clear = 1 /\ calls.upd = 1 /\ calls.trade = 1
  /\ mlog = <<>> /\ tlog = <<>>
  /\ store.max_metrics > 0 /\ store.max_trades > 0
  /\ store = NewStore(store.max_metrics, store.max_trades)

\* The latest depth update was given to the live client's handler, which
\* stored it.
LiveStored ==
  depthSrc = "live" /\ depthOut.exc = "" /\ depthOut.v.kind = "update"

\* C18: the imbalance stored for a depth update that the live client accepted
\* lies in [-1, 1], and is 0 when the volume of the top levels is 0.
C18_ImbalanceBounded ==
  (LiveStored /\ store.imbalances # <<>>) =>
    LET im == store.imbalances[Len(store.imbalances)].v
        total == SumQty(store.top_bids) + SumQty(store.top_asks)
    IN /\ im[2] > 0
       /\ im[1] <= im[2]
       /\ 0 - im[1] <= im[2]
       /\ total = 0 => im[1] = 0

\* The levels <<price, quantity>> of one side of the latest depth update, in
\* the order given: the decimal strings of a payload read as numbers, the
\* generator's pairs as they are.
UpdateSide(side) ==
  IF depthSrc = "live"
  THEN [i \in 1..Len(depthIn.f[side].items) |->
          << FloatOf[depthIn.f[side].items[i].items[1].s],
             FloatOf[depthIn.f[side].items[i].items[2].s] >>]
  ELSE depthIn[side]

PricesOf(levels) == { levels[i][1] : i \in 1..Len(levels) }
MaxOf(S) == CHOOSE x \in S : \A y \in S : y <= x
MinOf(S) == CHOOSE x \in S : \A y \in S : x <= y

\* The latest depth update has levels on both sides.
BothSides ==
  depthSrc # "none" /\ UpdateSide("bids") # <<>> /\ UpdateSide("asks") # <<>>

\* C19: a depth update with levels on both sides, in any order, is stored with
\* best_bid the highest bid price and best_ask the lowest ask price of the
\* update, mid_price their mean and spread best_ask - best_bid.
C19_BestPrices ==
  BothSides =>
    LET hi == MaxOf(PricesOf(UpdateSide("bids")))
        lo == MinOf(PricesOf(UpdateSide("asks")))
    IN /\ depthOut.exc = "" /\ depthOut.v.kind = "update"
       /\ store.best_bid = Some(hi)
       /\ store.best_ask = Some(lo)
       /\ store.mid_prices[Len(store.mid_prices)].v = <<hi + lo, 2>>
       /\ store.spreads[Len(store.spreads)].v = lo - hi

\* C19 witness: a payload whose first bid is not the highest and whose first
\* ask is not the lowest has been stored.
C19_Witness ==
  /\ LiveStored
  /\ BothSides
  /\ store.best_bid # Some(UpdateSide("bids")[1][1])
  /\ store.best_ask # Some(UpdateSide("asks")[1][1])

\* The prices of levels never rise (desc) or never fall (~desc) along it.
Ordered(levels, desc) ==
  \A i \in 1..(Len(levels) - 1) :
    IF desc THEN levels[i][1] >= levels[i + 1][1]
    ELSE levels[i][1] <= levels[i + 1][1]

\* C20: after a depth update stored by the live client or by the mock
\* generator, top_bids has non-increasing prices, top_asks non-decreasing
\* prices, and each holds min(5, levels on that side of the update) levels.
C20_TopLevels ==
  (depthSrc # "none" /\ depthOut.exc = "" /\ depthOut.v.kind = "update") =>
    /\ Ordered(store.top_bids, TRUE)
    /\ Ordered(store.top_asks, FALSE)
    /\ Len(store.top_bids) = Min(5, Len(UpdateSide("bids")))
    /\ Len(store.top_asks) = Min(5, Len(UpdateSide("asks")))

\* C20 witness: a payload with six bids out of order and two asks, the higher
\* first, has been stored.
C20_Witness ==
  /\ LiveStored
  /\ Len(UpdateSide("bids")) = 6
  /\ Len(store.top_bids) = 5
  /\ Len(UpdateSide("asks")) = 2
  /\ UpdateSide("asks")[1][1] > UpdateSide("asks")[2][1]
  /\ store.top_asks[1][1] < store.top_asks[2][1]

\* The first level, in the order given, that has price p.
FirstAt(levels, p) ==
  levels[CHOOSE i \in 1..Len(levels) :
           /\ levels[i][1] = p
           /\ \A j \in 1..(i - 1) : levels[j][1] # p]

\* C21: the stored bid_volume and ask_volume are the quantity of the one best
\* level of each side: of the levels at the best price, the first in the
\* order of the update.
C21_BestLevelVolume ==
  (BothSides /\ depthOut.exc = "" /\ depthOut.v.kind = "update") =>
    LET bids == UpdateSide("bids")
        asks == UpdateSide("asks")
    IN /\ store.bid_volume = Some(FirstAt(bids, MaxOf(PricesOf(bids)))[2])
       /\ store.ask_volume = Some(FirstAt(asks, MinOf(PricesOf(asks)))[2])

\* C21 witness: both sides of the stored update have two levels at the best
\* price with different quantities, and more volume in the top levels than
\* at the best one.
C21_Witness ==
  /\ LiveStored
  /\ \E i, j \in 1..Len(UpdateSide("bids")) :
       /\ i < j
       /\ UpdateSide("bids")[i][1] = store.best_bid[1]
       /\ UpdateSide("bids")[j][1] = store.best_bid[1]
       /\ UpdateSide("bids")[i][2] # UpdateSide("bids")[j][2]
  /\ \E i, j \in 1..Len(UpdateSide("asks")) :
       /\ i < j
       /\ UpdateSide("asks")[i][1] = store.best_ask[1]
       /\ UpdateSide("asks")[j][1] = store.best_ask[1]
       /\ UpdateSide("asks")[i][2] # UpdateSide("asks")[j][2]
  /\ SumQty(store.top_bids) # store.bid_volume[1]
  /\ SumQty(store.top_asks) # store.ask_volume[1]

\* ---------------------------------------------------------------------------
\* The trade handlers on their own: _process_trade_update of the live client
\* and _generate_trade of the mock generator, each followed by the store's
\* add_trade.
\* ---------------------------------------------------------------------------

\* The payloads given to _process_trade_update: 'm' is a JSON boolean, or a
\* value of another JSON type, which the handler does not tell apart (line
\* 200); one payload has no 'm' and one has a 'T' that cannot be divided.
TradeFlags == {JBool(TRUE), JBool(FALSE), JStr("false"), JNum(0), JNull}
TradeStamps == {JNum(1000), JNum(2500)}
TradePayloads ==
  { Trade(JStr(p), JStr("1"), T, m) :
      p \in {"1", "2.0"}, T \in TradeStamps, m \in TradeFlags }
    \cup { JObj(("p" :> JStr("1")) @@ ("q" :> JStr("1")) @@ ("T" :> JNum(1000))),
           Trade(JStr("1"), JStr("1"), JStr("1000"), JBool(TRUE)) }

\* side under 'BUY' if is_buy else 'BUY'
MockSideAlwaysBuy(is_buy) == "BUY"

\* mock_data.py line 96
MockSide(is_buy) == IF is_buy THEN "BUY" ELSE "SELL"

\* MockDataGenerator._generate_trade's dict (mock_data.py lines 91-97)
MockTradeDict(is_buy, price, qty, now) ==
  [ price |-> price, qty |-> qty, time |-> <<now, 1>>,
    is_buyer_maker |-> ~is_buy, side |-> MockSide(is_buy) ]

\* _process_trade_update (stream_worker.py lines 188-205) called on its own
ProcessTrade(data) ==
  /\ LET r == ProcessTradeUpdate(data) IN
       /\ store' = IF r.exc = "" THEN ApplyCall(store, r.v) ELSE store
       /\ tradeOut' = r
  /\ tradeSrc' = "live"
  /\ tradeIn' = data
  /\ UNCHANGED <<threadVars, clientVars, depthVars, mockVars, stopVars, genVars>>

\* MockDataGenerator._generate_trade (mock_data.py lines 85-98): the draws,
\* the dict, then store.add_trade
MockTrade(is_buy, price, qty, now) ==
  /\ LET c == TradeCall(MockTradeDict(is_buy, price, qty, now)) IN
       /\ store' = ApplyCall(store, c)
       /\ tradeOut' = Ok(c)
  /\ tradeSrc' = "mock"
  /\ tradeIn' = [is_buy |-> is_buy]
  /\ UNCHANGED <<threadVars, clientVars, depthVars, mockVars, stopVars, genVars>>

TradeCapacities == {2}
MockPrices == {1, 2}

InitTrade ==
  /\ \E mm \in TradeCapacities, mt \in TradeCapacities :
       store = NewStore(mm, mt)
  /\ lock = 0
  /\ pc = [t \in Threads |-> "idle"]
  /\ local = [t \in Threads |-> <<>>]
  /\ lastSnap = None
  /\ calls = NoCalls
  /\ mlog = <<>>
  /\ tlog = <<>>
  /\ ClientInit
NextTrade ==
  \/ \E data \in TradePayloads : ProcessTrade(data)
  \/ \E is_buy \in BOOLEAN, price \in MockPrices, now \in Times :
       MockTrade(is_buy, price, 1, now)
SpecTrade == InitTrade /\ [][NextTrade]_vars

\* The trade the latest handler call stored: the newest of recent_trades.
TradeStored == tradeOut # <<>> /\ tradeOut.exc = "" /\ tradeOut.v.kind = "trade"
NewestTrade == store.recent_trades[Len(store.recent_trades)]

\* C22: every trade the live client stores has side SELL exactly when the
\* payload's m is true and BUY exactly when it is false, with time T / 1000;
\* every trade the mock stores has side SELL exactly when is_buyer_maker is
\* true and BUY exactly when it is false.
C22_SideFromMaker ==
  TradeStored =>
    /\ tradeSrc = "live" =>
         /\ NewestTrade.side = "SELL" <=> tradeIn.f["m"] = JBool(TRUE)
         /\ NewestTrade.side = "BUY" <=> tradeIn.f["m"] = JBool(FALSE)
         /\ NewestTrade.time = <<tradeIn.f["T"].n, 1000>>
    /\ tradeSrc = "mock" =>
         /\ NewestTrade.side = "SELL" <=> NewestTrade.is_buyer_maker = TRUE
         /\ NewestTrade.side = "BUY" <=> NewestTrade.is_buyer_maker = FALSE

\* What does hold of the live client: the side follows the truthiness of m.
C22_SideFromTruthiness ==
  (TradeStored /\ tradeSrc = "live") =>
    /\ NewestTrade.side = (IF Truthy(tradeIn.f["m"]) THEN "SELL" ELSE "BUY")
    /\ NewestTrade.time = <<tradeIn.f["T"].n, 1000>>

\* C23: no store with a non-positive capacity exists: constructing a
\* MarketStore with max_metrics or max_trades equal to 0 or negative fails.
C23_CapacityPositive == store.max_metrics > 0 /\ store.max_trades > 0

\* What does hold: a negative capacity fails at construction (ValueError of
\* deque), so no store has one.
C23_CapacityNonNegative == store.max_metrics >= 0 /\ store.max_trades >= 0

\* The parts of the store: the current book, the four series, the trade log.
BookOf(s) ==
  <<s.best_bid, s.best_ask, s.bid_volume, s.ask_volume, s.top_bids, s.top_asks>>
SeriesOf(s) == <<s.mid_prices, s.spreads, s.imbalances, s.timestamps>>
ConfigOf(s) == <<s.max_metrics, s.max_trades>>

\* new is old with one element appended, the oldest evicted if cap was reached.
AppendedOne(old, new, cap) ==
  /\ Len(new) = Min(Len(old) + 1, cap)
  /\ \A i \in 1..(Len(new) - 1) :
       new[i] = old[Len(old) - (Len(new) - 1) + i]

\* C24: a well-formed depth message changes only the book fields and the four
\* series, never the trade log; a well-formed trade message appends exactly
\* one trade and changes neither the book fields nor the series; a message of
\* a stream that is neither a depth nor a trade stream leaves the store
\* unchanged.
C24_Routing ==
  [][/\ \A m \in GoodDepthMessages, now \in Times :
          RecvMessage(m, now) =>
            /\ store'.recent_trades = store.recent_trades
            /\ ConfigOf(store') = ConfigOf(store)
            /\ Len(store'.mid_prices) = Min(Len(store.mid_prices) + 1,
                                            store.max_metrics)
     /\ \A m \in GoodTradeMessages, now \in Times :
          RecvMessage(m, now) =>
            /\ AppendedOne(store.recent_trades, store'.recent_trades,
                           store.max_trades)
            /\ LET t == store'.recent_trades[Len(store'.recent_trades)]
                   d == m.json.f["data"].f
               IN /\ t.time = <<d["T"].n, 1000>>
                  /\ t.is_buyer_maker = d["m"].b
                  /\ Float(d["p"]) = Ok(t.price)
                  /\ Float(d["q"]) = Ok(t.qty)
            /\ BookOf(store') = BookOf(store)
            /\ SeriesOf(store') = SeriesOf(store)
            /\ ConfigOf(store') = ConfigOf(store)
     /\ \A m \in Messages, now \in Times :
          ( /\ m.valid
            /\ m.json.ty = "obj"
            /\ "stream" \in DOMAIN m.json.f
            /\ m.json.f["stream"].ty = "str"
            /\ WordsOf[m.json.f["stream"].s] \cap {"depth", "trade"} = {}
            /\ RecvMessage(m, now) ) => store' = store
    ]_vars

\* C24 witness: a depth message and a trade message have been processed, and
\* after them, on the same connection, a message that asks nothing of the
\* store.
C24_Witness ==
  /\ lastMsg = "ignored"
  /\ prevMsg = "good"
  /\ cpc = "inner"
  /\ store.recent_trades # <<>>
  /\ store.mid_prices # <<>>

\* ---------------------------------------------------------------------------
\* The store's callers under fair scheduling: a thread inside a call is not
\* held up forever when it can go on again and again (a thread waiting for
\* the lock gets it if the lock keeps becoming free).  Threads are free to
\* make no further call.
\* ---------------------------------------------------------------------------
FairCapacities == {1}
WaitStates == {"u_wait", "t_wait", "s_wait", "c_wait"}
CallStep(t) == pc[t] # "idle" /\ StoreStep(t)

InitFair ==
  /\ \E mm \in FairCapacities, mt \in FairCapacities :
       store = MarketStoreNew(mm, mt).v
  /\ lock = 0
  /\ pc = [t \in Threads |-> "idle"]
  /\ local = [t \in Threads |-> <<>>]
  /\ lastSnap = None
  /\ calls = NoCalls
  /\ mlog = <<>>
  /\ tlog = <<>>
  /\ ClientInit
SpecFair ==
  InitFair /\ [][Next]_vars /\ \A t \in Threads : SF_vars(CallStep(t))

MaxWalk == 3

\* line 34: the price changes drawn
WalkSteps == {-MOCK_STEP, 0, MOCK_STEP}

\* A drawn book moved to the current price: level 0 is at the price itself
\* (lines 38-49, i = 0).
Shift(levels, price) ==
  [i \in 1..Len(levels) |->
     <<levels[i][1] + (price - levels[1][1]), levels[i][2]>>]

\* The trade of an iteration of _run (lines 110-111): none, or one.
MockTradeDraws == {"none", "buy", "sell"}

\* One iteration of MockDataGenerator._run (lines 106-113):
\* _generate_depth_update, then _generate_trade or not.
MockIteration(step, bids, asks, tr, now) ==
  /\ mock_started
  /\ walk < MaxWalk
  /\ walk' = walk + 1
  /\ current_price' = current_price + step
  /\ LET c == UpdateCall(MockDepthMetrics(Shift(bids, current_price'),
                                          Shift(asks, current_price'), now))
         s1 == ApplyCall(store, c)
     IN store' = IF tr = "none" THEN s1
                 ELSE ApplyCall(s1, TradeCall(MockTradeDict(tr = "buy",
                                                current_price', 1, now)))
  /\ UNCHANGED <<threadVars, clientVars, depthVars, tradeVars, stopVars, genVars>>

MockStep ==
  \E step \in WalkSteps, bids \in MockBids, asks \in MockAsks,
     tr \in MockTradeDraws, now \in DepthTimes :
    MockIteration(step, bids, asks, tr, now)

NextWorker == NextClient \/ MockStep
SpecWorker == InitClient /\ [][NextWorker]_vars /\ WF_vars(ClientStep)

\* The live client's coroutine is alive: it can still connect or write.
ClientAlive == cpc \in {"spawned", "outer", "connecting", "sleep", "inner",
                        "recv", "ping"}

Abs(x) == IF x < 0 THEN -x ELSE x

\* C29: the generator's price is a bounded random walk: current_price stays
\* within a fixed distance of base_price, however many updates are made (here
\* the largest distance that one update fewer than the run's could reach).
C29_BoundedWalk ==
  Abs(current_price - MOCK_BASE_PRICE) <= MOCK_STEP * (MaxWalk - 1)

\* What does hold: the distance is bounded by the number of updates made only.
C29_DistanceBySteps == Abs(current_price - MOCK_BASE_PRICE) <= MOCK_STEP * walk

\* C27: a receive that times out (60 s without a message) is followed by a
\* ping; when the pong arrives (within 10 s) the client is on the same
\* connection, about to receive again, with the store, the delay and the
\* failure counts as they were; when the ping fails or times out the client
\* leaves the connection and goes on to connect again (or ends, if stop() was
\* called).
C27_Probe ==
  /\ [][cpc' = "ping" => cpc \in {"recv", "ping"}]_vars
  /\ [][(cpc = "recv" /\ cpc' = "ping") => UNCHANGED <<store, reconnect_delay,
          running, fails, lastFailure>>]_vars
  /\ [][(cpc = "ping" /\ cpc' # "ping") =>
          \/ /\ cpc' = "inner"
             /\ UNCHANGED <<store, reconnect_delay, running, fails, fails451,
                            lastFailure, lastMsg, prevMsg>>
          \/ /\ cpc' = "outer"
             /\ lastFailure' = "probe"
             /\ UNCHANGED store]_vars
  /\ (cpc = "inner" /\ running) ~> (cpc = "recv" \/ ~running)
  /\ (cpc = "outer" /\ lastFailure = "probe")
       ~> (cpc = "connecting" \/ cpc = "stopped")

\* C27 witness: on a connection that delivered a depth update the probe
\* failed, and the client is connecting again.
C27_Witness ==
  /\ lastFailure = "probe"
  /\ cpc = "connecting"
  /\ store.mid_prices # <<>>
  /\ ~stopCalled

\* The latest depth update given to the live client is crossed (its highest
\* bid is above its lowest ask) or locked (they are equal).
Crossed ==
  /\ depthSrc = "live"
  /\ BothSides
  /\ MaxOf(PricesOf(UpdateSide("bids"))) >= MinOf(PricesOf(UpdateSide("asks")))

\* C28: a crossed or locked depth update is not rejected: it is stored like
\* any other, with a point appended to each series, and the spread of that
\* point is best_ask - best_bid unclamped: negative for a crossed book, zero
\* for a locked one.
C28_CrossedStored ==
  Crossed =>
    LET hi == MaxOf(PricesOf(UpdateSide("bids")))
        lo == MinOf(PricesOf(UpdateSide("asks")))
        n == Len(store.spreads)
    IN /\ LiveStored
       /\ store = UpdateBookMetrics(store, WithCall(depthOut.v.a, 0))
       /\ n >= 1
       /\ Len(store.mid_prices) = n
       /\ Len(store.imbalances) = n
       /\ Len(store.timestamps) = n
       /\ store.spreads[n].v = store.best_ask[1] - store.best_bid[1]
       /\ store.spreads[n].v = lo - hi
       /\ hi > lo => store.spreads[n].v < 0
       /\ hi = lo => store.spreads[n].v = 0

\* C28 witness: a crossed book has been stored, with a negative spread.
C28_Witness ==
  /\ Crossed
  /\ LiveStored
  /\ store.best_bid[1] > store.best_ask[1]
  /\ store.spreads[Len(store.spreads)].v < 0

\* C30: for a store of max_metrics >= 1, in every snapshot best_bid and
\* best_ask are None exactly when data_points is 0, whatever calls of
\* update_book_metrics, add_trade and clear came before.
C30_BestIffData ==
  (lastSnap # None /\ store.max_metrics >= 1) =>
    /\ lastSnap[1].best_bid = None <=> lastSnap[1].data_points = 0
    /\ lastSnap[1].best_ask = None <=> lastSnap[1].data_points = 0

\* C30 witness: after an update and a clear a snapshot of the emptied store
\* was taken, and the next update is now inside its critical section, between
\* the assignment of the best prices and the appends.
C30_Witness ==
  /\ lastSnap # None
  /\ store.max_metrics >= 1
  /\ lastSnap[1].data_points = 0
  /\ lastSnap[1].best_bid = None
  /\ calls.clear >= 1
  /\ calls.upd >= 2
  /\ store.best_bid # None
  /\ store.mid_prices = <<>>

\* C31: after stop() on a connected live client at most one more message is
\* received and applied to the store, the one whose receive was pending; the
\* client starts no receive once self.running is False.
C31_OneMessageAfterStop ==
  /\ [](afterStop <= 1)
  /\ [][(~running /\ cpc' = "recv") => cpc = "recv"]_vars
  /\ [][(~running /\ cpc = "recv" /\ afterStop' = afterStop + 1) =>
          (cpc' \in {"inner", "outer"} /\ ~running')]_vars

\* C31 witness: stop() was called while a receive was pending, the message that
\* then arrived was applied to the store, and the client has ended.
C31_Witness ==
  /\ stopCalled
  /\ afterStop = 1
  /\ lastMsg = "good"
  /\ store.mid_prices # <<>>
  /\ prevMsg = "none"
  /\ cpc = "stopped"

\* ---------------------------------------------------------------------------
\* One MockDataGenerator, as start_mock_worker builds it, with threads that
\* call its start() and stop().  Neither method takes a lock: each of their
\* statements is a step of its own.
\* ---------------------------------------------------------------------------

\* The _run threads alive at once in a run of the model.
MaxGen == 3

genFrame == <<threadVars, clientVars, depthVars, tradeVars, stopVars>>

\* mock_data.py lines 123-124: start() reads self.running and returns if it
\* is set.
StartCheck(t) ==
  /\ gpc[t] = "idle"
  /\ gpc' = [gpc EXCEPT ![t] = IF gen_running THEN "idle" ELSE "set"]
  /\ UNCHANGED <<store, genFrame, mockVars, gen_running, gen_threads>>

\* line 126: self.running = True
StartSet(t) ==
  /\ gpc[t] = "set"
  /\ gen_running' = TRUE
  /\ gpc' = [gpc EXCEPT ![t] = "spawn"]
  /\ UNCHANGED <<store, genFrame, mockVars, gen_threads>>

\* lines 127-128: a new thread is created and started on _run
StartSpawn(t) ==
  /\ gpc[t] = "spawn"
  /\ gen_threads < MaxGen
  /\ gen_threads' = gen_threads + 1
  /\ gpc' = [gpc EXCEPT ![t] = "idle"]
  /\ UNCHANGED <<store, genFrame, mockVars, gen_running>>

\* line 132: self.running = False
StopSet(t) ==
  /\ gpc[t] = "idle"
  /\ gen_running' = FALSE
  /\ gpc' = [gpc EXCEPT ![t] = "join"]
  /\ UNCHANGED <<store, genFrame, mockVars, gen_threads>>

\* lines 133-134: self._thread.join(timeout=2) returns, the thread having
\* ended or the 2 s being over (no thread was ever started: line 133 skips
\* the join).
StopJoin(t) ==
  /\ gpc[t] = "join"
  /\ gpc' = [gpc EXCEPT ![t] = "idle"]
  /\ UNCHANGED <<store, genFrame, mockVars, gen_running, gen_threads>>

\* lines 104-113: a thread inside _run finds self.running set and makes one
\* iteration.
GenIterate ==
  /\ gen_threads >= 1
  /\ gen_running
  /\ MockStep
  /\ UNCHANGED <<gen_running, gen_threads, gpc>>

\* lines 104, 119: a thread inside _run finds self.running cleared and ends.
GenExit ==
  /\ gen_threads >= 1
  /\ ~gen_running
  /\ gen_threads' = gen_threads - 1
  /\ UNCHANGED <<store, genFrame, mockVars, gen_running, gpc>>

GenCapacities == {1}

\* start_mock_worker line 146: generator = MockDataGenerator(store)
InitGen ==
  /\ \E mm \in GenCapacities, mt \in GenCapacities : store = NewStore(mm, mt)
  /\ lock = 0
  /\ pc = [t \in Threads |-> "idle"]
  /\ local = [t \in Threads |-> <<>>]
  /\ lastSnap = None
  /\ calls = NoCalls
  /\ mlog = <<>>
  /\ tlog = <<>>
  /\ worker = "mock"
  /\ cpc = "absent"
  /\ running = FALSE
  /\ reconnect_delay = RECONNECT_BASE_DELAY
  /\ http_451_count = 0
  /\ mock_started = TRUE
  /\ stopCalled = FALSE
  /\ fails = 0
  /\ fails451 = 0
  /\ lastFailure = "none"
  /\ lastMsg = "none"
  /\ prevMsg = "none"
  /\ depthSrc = "none"
  /\ depthIn = <<>>
  /\ depthOut = <<>>
  /\ tradeSrc = "none"
  /\ tradeIn = <<>>
  /\ tradeOut = <<>>
  /\ current_price = MOCK_BASE_PRICE
  /\ walk = 0
  /\ afterStop = 0
  /\ gen_running = FALSE
  /\ gen_threads = 0
  /\ gpc = [t \in Threads |-> "idle"]
NextGen ==
  \/ \E t \in Threads :
       StartCheck(t) \/ StartSet(t) \/ StartSpawn(t) \/ StopSet(t) \/ StopJoin(t)
  \/ GenIterate
  \/ GenExit
SpecGen == InitGen /\ [][NextGen]_vars

\* C32: for one generator, whatever start() and stop() calls are made, one
\* after another or at once, at most one thread is inside _run; start() on a
\* running generator starts no thread.
C32_OneGeneratorThread ==
  /\ [](gen_threads <= 1)
  /\ [][\A t \in Threads :
          (gen_running /\ StartCheck(t)) => gpc'[t] = "idle"]_vars

\* What does hold: a start() that finds self.running set returns at once and
\* starts nothing.
C32_StartOnRunningReturns ==
  [][\A t \in Threads :
       (gen_running /\ StartCheck(t)) =>
         (gpc'[t] = "idle" /\ gen_threads' = gen_threads)]_vars

====
